---- MODULE Spec2Model ----
(***************************************************************************)
(* Row validation of the QMPxDB Siemens check: the QualityChecker class    *)
(* (completeness-checker.js, carried at the end of README.md) and the      *)
(* inline runQualityCheck of server.js.  Spec evaluates one data row with  *)
(* both implementations; RunSpec is a run of either implementation over a  *)
(* sheet: load, row loop, report, release list, summary and stats.         *)
(*                                                                         *)
(* JavaScript strings are sequences of one-character strings, so that      *)
(* trim, split, toLowerCase, includes, parseFloat and the text-measurement *)
(* regular expression are computed character by character.  Numbers are    *)
(* exact decimal fractions num/den with den a power of ten.  The decimal   *)
(* literals of the modelled cells carry no exponent part and no Infinity.  *)
(***************************************************************************)
EXTENDS Integers, Sequences, FiniteSets, TLC

VARIABLES
  headers,     \* the header array built from row 3 (0-based in the code, 1-based here)
  row,         \* the data row under evaluation: a sequence of cell values
  done,        \* which of the two implementations have evaluated the row
  rowRes,      \* the entry QualityChecker.checkQuality pushes to results for the row
  srvRes,      \* the entry the inline runQualityCheck pushes to results for the row
  inputBuffer, \* the uploaded sheet: its rows from row 1 on, each a sequence of cell values
  impl,        \* the implementation a run executes: "QualityChecker" or "runQualityCheck"
  pc,          \* the position of the run: "start", "loop", "done"
  ws,          \* the worksheet loaded from inputBuffer, which the run works on
  rowNum,      \* the loop variable of the row loop
  results,     \* the results array
  totalRows,   \* counter of the processed data rows
  validRows,   \* counter of the rows without error
  errorRows,   \* counter of the rows with an error (QualityChecker only)
  rowFill,     \* the fill colorRow gave the cells of each row of ws
  qualityWs,   \* the sheet 'Qualitätsbericht'
  releaseWs,   \* the sheet 'Freigabeliste': the arrays handed to addRow
  summaryData, \* the rows of the sheet 'Zusammenfassung'
  stats,       \* the stats object of the returned result
  browser,     \* SiemensProductScraper.browser: 0 for null, else the number of the launched browser
  page,        \* SiemensProductScraper.page: 0 for null, else the number of the browser it belongs to
  launched,    \* how many times puppeteer.launch has been called since the scraper was closed
  calls,       \* the scrapeMany calls of the HTTP requests, each with its position and locals
  closer,      \* the shutdown handler that calls close(): "idle", "closing" or "exited"
  file,        \* the sheet uploaded to /api/web-search: its rows from row 1 on
  webWs,       \* the worksheet the web search works on
  tasks,       \* the A2V numbers collected from column Z
  prodRows,    \* rowsPerSheet.get(ws): the row numbers the A2V numbers were collected from
  resultsMap,  \* what scrapeMany returned
  structure,   \* what calculateNewColumnStructure returned
  step,        \* the position of the web search: "load", "scrape", "restructure", "compare", "done"
  cursor,      \* the (row, pair) the comparison loop visits next
  foundCount,  \* counter of the (row, pair) with a web value
  missingCount,\* counter of the (row, pair) without a web value
  diffCount,   \* counter of the (row, pair) whose web value differs from the DB value
  webFill      \* the colour fillColor gave to each cell address

rowVars == <<row, done, rowRes, srvRes>>

runVars == <<inputBuffer, impl, pc, ws, rowNum, results, totalRows, validRows, errorRows,
             rowFill, qualityWs, releaseWs, summaryData, stats>>

scrapeVars == <<browser, page, launched, calls, closer>>

searchVars == <<file, webWs, tasks, prodRows, resultsMap, structure, step, cursor,
                foundCount, missingCount, diffCount, webFill>>

checkVars == <<headers, rowVars, runVars>>

webVars == <<scrapeVars, searchVars>>

vars == <<checkVars, webVars>>

----------------------------------------------------------------------------
(* Cell values: null, a number, a string, or a cell whose access raises.   *)

Null == [t |-> "null", num |-> 0, den |-> 1, s |-> <<>>]

Num(n, d) == [t |-> "num", num |-> n, den |-> d, s |-> <<>>]

Str(chars) == [t |-> "str", num |-> 0, den |-> 1, s |-> chars]

Throws == [t |-> "throws", num |-> 0, den |-> 1, s |-> <<>>]

NaN == [nan |-> TRUE, num |-> 0, den |-> 1]

Finite(n, d) == [nan |-> FALSE, num |-> n, den |-> d]

DigitChars == <<"0", "1", "2", "3", "4", "5", "6", "7", "8", "9">>

UpperChars == <<"A", "B", "C", "D", "E", "F", "G", "H", "I", "J", "K", "L", "M", "N", "O", "P", "Q", "R", "S", "T", "U", "V", "W", "X", "Y", "Z", "Ä", "Ö", "Ü">>

LowerChars == <<"a", "b", "c", "d", "e", "f", "g", "h", "i", "j", "k", "l", "m", "n", "o", "p", "q", "r", "s", "t", "u", "v", "w", "x", "y", "z", "ä", "ö", "ü">>

IsDigit(c) == \E i \in 1..10 : DigitChars[i] = c

DigitVal(c) == (CHOOSE i \in 1..10 : DigitChars[i] = c) - 1

IsSpace(c) == c \in {" ", "\t", "\n", "\r"}

\* String.prototype.trim
RECURSIVE TrimLeft(_)
TrimLeft(s) ==
  IF s # <<>> /\ IsSpace(Head(s)) THEN TrimLeft(Tail(s)) ELSE s

RECURSIVE TrimRight(_)
TrimRight(s) ==
  IF s # <<>> /\ IsSpace(s[Len(s)]) THEN TrimRight(SubSeq(s, 1, Len(s) - 1)) ELSE s

Trim(s) == TrimRight(TrimLeft(s))

\* String.prototype.toLowerCase
LowerChar(c) ==
  IF \E i \in 1..Len(UpperChars) : UpperChars[i] = c
    THEN LowerChars[CHOOSE i \in 1..Len(UpperChars) : UpperChars[i] = c]
    ELSE c

RECURSIVE ToLowerCase(_)
ToLowerCase(s) ==
  IF s = <<>> THEN <<>> ELSE <<LowerChar(Head(s))>> \o ToLowerCase(Tail(s))

\* String.prototype.includes
Includes(s, term) ==
  \E i \in 0..(Len(s) - Len(term)) :
    \A k \in 1..Len(term) : s[i + k] = term[k]

\* String.prototype.split("/")
RECURSIVE SplitFrom(_, _, _)
SplitFrom(s, i, cur) ==
  IF i > Len(s) THEN <<cur>>
  ELSE IF s[i] = "/" THEN <<cur>> \o SplitFrom(s, i + 1, <<>>)
  ELSE SplitFrom(s, i + 1, Append(cur, s[i]))

Split(s) == SplitFrom(s, 1, <<>>)

\* Decimal digits of a natural number
RECURSIVE NatDigits(_)
NatDigits(n) ==
  IF n < 10 THEN <<DigitChars[n + 1]>>
  ELSE Append(NatDigits(n \div 10), DigitChars[(n % 10) + 1])

RECURSIVE FracDigits(_, _)
FracDigits(f, d) ==
  IF d = 1 THEN <<>>
  ELSE <<DigitChars[(f \div (d \div 10)) + 1]>> \o FracDigits(f % (d \div 10), d \div 10)

RECURSIVE Normalize(_, _)
Normalize(n, d) ==
  IF d > 1 /\ n % 10 = 0 THEN Normalize(n \div 10, d \div 10) ELSE <<n, d>>

\* String(number): shortest decimal form
NumJsString(n, d) ==
  LET nd == Normalize(n, d)
      a  == IF nd[1] < 0 THEN 0 - nd[1] ELSE nd[1]
      ip == a \div nd[2]
      fp == a % nd[2]
  IN  (IF nd[1] < 0 THEN <<"-">> ELSE <<>>)
      \o NatDigits(ip)
      \o (IF fp = 0 THEN <<>> ELSE <<".">> \o FracDigits(fp, nd[2]))

\* String(value)
JsString(v) ==
  CASE v.t = "str"  -> v.s
    [] v.t = "num"  -> NumJsString(v.num, v.den)
    [] OTHER        -> <<"n", "u", "l", "l">>

\* JavaScript truthiness of a cell value (!value is its negation)
Truthy(v) ==
  CASE v.t = "str"  -> v.s # <<>>
    [] v.t = "num"  -> v.num # 0
    [] OTHER        -> FALSE

\* number of consecutive decimal digits of s starting at position i
RECURSIVE DigitRun(_, _)
DigitRun(s, i) ==
  IF i <= Len(s) /\ IsDigit(s[i]) THEN 1 + DigitRun(s, i + 1) ELSE 0

\* value of the n digits of s starting at position i
RECURSIVE DigitsValue(_, _, _)
DigitsValue(s, i, n) ==
  IF n = 0 THEN 0
  ELSE 10 * DigitsValue(s, i, n - 1) + DigitVal(s[i + n - 1])

RECURSIVE Pow10(_)
Pow10(k) == IF k = 0 THEN 1 ELSE 10 * Pow10(k - 1)

\* parseFloat on a string: leading white space, sign, digits, "." digits
ParseFloatStr(str) ==
  LET s    == TrimLeft(str)
      neg  == s # <<>> /\ s[1] = "-"
      sg   == IF s # <<>> /\ s[1] \in {"-", "+"} THEN 1 ELSE 0
      ni   == DigitRun(s, sg + 1)
      dot  == sg + ni + 1 <= Len(s) /\ s[sg + ni + 1] = "."
      nf   == IF dot THEN DigitRun(s, sg + ni + 2) ELSE 0
      mant == DigitsValue(s, sg + 1, ni) * Pow10(nf) + DigitsValue(s, sg + ni + 2, nf)
  IN  IF ni + nf = 0 THEN NaN
      ELSE Finite(IF neg THEN 0 - mant ELSE mant, Pow10(nf))

\* parseFloat(value): the argument is converted to a string first
ParseFloat(v) == ParseFloatStr(JsString(v))

\* a parse that hands NaN on instead of replacing it by 0
ParseFloatOrZero_KeepNaN(v) == ParseFloat(v)

\* parseFloat(value) || 0
ParseFloatOrZero(v) ==
  LET p == ParseFloat(v)
  IN  IF p.nan \/ p.num = 0 THEN Finite(0, 1) ELSE p

\* String.prototype.replace(',', '.'): only the first comma is replaced
RECURSIVE ReplaceComma(_)
ReplaceComma(s) ==
  IF s = <<>> THEN <<>>
  ELSE IF Head(s) = "," THEN <<".">> \o Tail(s)
  ELSE <<Head(s)>> \o ReplaceComma(Tail(s))

\* toNumber of utils.js; the result null is the record with null = TRUE
toNumber(v) ==
  IF v.t = "null" \/ (v.t = "str" /\ v.s = <<>>)
    THEN [null |-> TRUE, num |-> 0, den |-> 1]
  ELSE LET n == ParseFloatStr(ReplaceComma(JsString(v)))
       IN  IF n.nan THEN [null |-> TRUE, num |-> 0, den |-> 1]
           ELSE [null |-> FALSE, num |-> n.num, den |-> n.den]

----------------------------------------------------------------------------
(* Rows, headers and verdicts.                                             *)

\* row.getCell(col).value for a 1-based column number; a cell the row does
\* not hold is created empty
GetCell(r, col) == IF col <= Len(r) THEN r[col] ELSE Null

\* headers[index] for a 0-based index; undefined is null here
HeaderAt(hs, index) == IF index + 1 <= Len(hs) THEN hs[index + 1] ELSE Null

NoError == [null |-> TRUE, msg |-> "", fields |-> <<>>]

Error(m) == [null |-> FALSE, msg |-> m, fields |-> <<>>]

pos1Values == {<<"O", "H", "N", "E">>, <<"1">>, <<"2">>, <<"3">>}

pos2Values == {<<"N">>, <<"3", ".", "2">>, <<"3", ".", "1">>, <<"2", ".", "2">>, <<"2", ".", "1">>}

pos3Values == {<<"N">>, <<"C", "L", "1">>, <<"C", "L", "2">>, <<"C", "L", "3">>}

pos4Values == {<<"N">>, <<"J">>}

pos5Values == {<<"N">>, <<"A", "1">>, <<"A", "2">>, <<"A", "3">>, <<"A", "5">>, <<"A", "+">>}

\* parts.map(teil => teil.trim())
RECURSIVE TrimAll(_)
TrimAll(parts) ==
  IF parts = <<>> THEN <<>> ELSE <<Trim(Head(parts))>> \o TrimAll(Tail(parts))

\* String(hinweis).split("/").map(teil => teil.trim())
Teile(hinweis) == TrimAll(Split(JsString(hinweis)))

\* a validity test that forgets the fifth part
AllPartsValid_NoFifth(teile) ==
  /\ teile[1] \in pos1Values
  /\ teile[2] \in pos2Values
  /\ teile[3] \in pos3Values
  /\ teile[4] \in pos4Values

AllPartsValid(teile) ==
  /\ teile[1] \in pos1Values
  /\ teile[2] \in pos2Values
  /\ teile[3] \in pos3Values
  /\ teile[4] \in pos4Values
  /\ teile[5] \in pos5Values

\* QualityChecker.checkFertPruefhinweis
checkFertPruefhinweis(hinweis) ==
  IF ~Truthy(hinweis) THEN [valid |-> FALSE, error |-> Error("Fehlender Wert")]
  ELSE IF Len(Teile(hinweis)) # 5
    THEN [valid |-> FALSE, error |-> Error("Nicht genau 5 Teile")]
  ELSE IF AllPartsValid(Teile(hinweis))
    THEN [valid |-> TRUE, error |-> NoError]
  ELSE [valid |-> FALSE, error |-> Error("Ungültige Werte in einem oder mehreren Teilen")]

\* QualityChecker.getColumnLetter
RECURSIVE getColumnLetter(_)
getColumnLetter(index) ==
  IF index > 0
    THEN Append(getColumnLetter((index - 1) \div 26), UpperChars[((index - 1) % 26) + 1])
    ELSE <<>>

\* Spaltenindizes: B=1, J=9, N=13, R=17, W=22
relevantIndices == <<1, 2, 3, 4, 5, 6, 7, 8, 9, 13, 17, 18, 19, 20, 21, 22>>

\* !cell.value || String(cell.value).trim() === ''
CellMissing(v) == ~Truthy(v) \/ Trim(JsString(v)) = <<>>

\* `${colLetter} (${headers[index] || 'Unbekannt'})`
MissingField(hs, index) ==
  [letter |-> getColumnLetter(index),
   header |-> IF Truthy(HeaderAt(hs, index))
                THEN JsString(HeaderAt(hs, index))
                ELSE <<"U", "n", "b", "e", "k", "a", "n", "n", "t">>]

\* the missingFields array after the first k entries of relevantIndices
RECURSIVE MissingFields(_, _, _)
MissingFields(r, hs, k) ==
  IF k = 0 THEN <<>>
  ELSE LET index == relevantIndices[k]
           before == MissingFields(r, hs, k - 1)
       IN  IF index < Len(hs) /\ CellMissing(GetCell(r, index + 1))
             THEN Append(before, MissingField(hs, index))
             ELSE before

\* a checkPflichtfelder whose error text is built only for two or more missing fields
checkPflichtfelder_ErrorFromTwo(r, hs) ==
  LET missingFields == MissingFields(r, hs, Len(relevantIndices))
  IN  [valid |-> Len(missingFields) = 0,
       error |-> IF Len(missingFields) > 1
                   THEN [null |-> FALSE, msg |-> "Fehlende Pflichtfelder: ", fields |-> missingFields]
                   ELSE NoError,
       missingCount |-> Len(missingFields)]

\* a checkPflichtfelder that examines every required position, whatever the
\* length of the header array
checkPflichtfelder_AllPositions(r, hs) ==
  LET missingFields == MissingFields(r, [i \in 1..23 |-> HeaderAt(hs, i - 1)], Len(relevantIndices))
  IN  [valid |-> Len(missingFields) = 0,
       error |-> IF Len(missingFields) > 0
                   THEN [null |-> FALSE, msg |-> "Fehlende Pflichtfelder: ", fields |-> missingFields]
                   ELSE NoError,
       missingCount |-> Len(missingFields)]

\* QualityChecker.checkPflichtfelder
checkPflichtfelder(r, hs) ==
  LET missingFields == MissingFields(r, hs, Len(relevantIndices))
  IN  [valid |-> Len(missingFields) = 0,
       error |-> IF Len(missingFields) > 0
                   THEN [null |-> FALSE, msg |-> "Fehlende Pflichtfelder: ", fields |-> missingFields]
                   ELSE NoError,
       missingCount |-> Len(missingFields)]

\* headers[i] is set and its lower-cased text includes one of the search terms
HeaderMatches(h, searchTerms) ==
  /\ Truthy(h)
  /\ LET headerStr == ToLowerCase(JsString(h))
     IN  \E k \in 1..Len(searchTerms) : Includes(headerStr, searchTerms[k])

\* the loop of findColumnByHeader from index i on
RECURSIVE findColumnFrom(_, _, _)
findColumnFrom(hs, searchTerms, i) ==
  IF i >= Len(hs) THEN -1
  ELSE IF HeaderMatches(HeaderAt(hs, i), searchTerms) THEN i
  ELSE findColumnFrom(hs, searchTerms, i + 1)

\* a search that answers the first column when no header matches
findColumnByHeader_FirstColumn(hs, searchTerms) ==
  IF findColumnFrom(hs, searchTerms, 0) = -1 THEN 0 ELSE findColumnFrom(hs, searchTerms, 0)

\* QualityChecker.findColumnByHeader: first matching 0-based index, or -1
findColumnByHeader(hs, searchTerms) == findColumnFrom(hs, searchTerms, 0)

FertTerms == <<<<"f", "e", "r", "t">>, <<"p", "r", "ü", "f", "h", "i", "n", "w", "e", "i", "s">>, <<"f", "e", "r", "t", "i", "g", "u", "n", "g", "s">>, <<"p", "r", "u", "e", "f", "h", "i", "n", "w", "e", "i", "s">>>>

LaengeTerms == <<<<"l", "ä", "n", "g", "e">>, <<"l", "e", "n", "g", "t", "h">>>>

BreiteTerms == <<<<"b", "r", "e", "i", "t", "e">>, <<"w", "i", "d", "t", "h">>>>

HoeheTerms == <<<<"h", "ö", "h", "e">>, <<"h", "e", "i", "g", "h", "t">>>>

MaterialTerms == <<<<"m", "a", "t", "e", "r", "i", "a", "l", "k", "u", "r", "z", "t", "e", "x", "t">>, <<"m", "a", "t", "e", "r", "i", "a", "l", "-", "k", "u", "r", "z", "t", "e", "x", "t">>, <<"m", "a", "t", "e", "r", "i", "a", "l">>>>

\* [\s×xX*/]
IsSeparator(c) == IsSpace(c) \/ c \in {"×", "x", "X", "*", "/"}

\* a pattern that allows only one separator character: /\d{1,4}[\s×xX*/]\d{1,4}/
PatternTest_OneSeparator(txt) ==
  \E i \in 1..Len(txt), a \in 1..4, c \in 1..4 :
    /\ i + a + c <= Len(txt)
    /\ \A p \in i..(i + a - 1) : IsDigit(txt[p])
    /\ IsSeparator(txt[i + a])
    /\ \A p \in (i + a + 1)..(i + a + c) : IsDigit(txt[p])

\* /\d{1,4}[\s×xX*/]{1,3}\d{1,4}/.test(txt)
PatternTest(txt) ==
  \E i \in 1..Len(txt), a \in 1..4, k \in 1..3, c \in 1..4 :
    /\ i + a + k + c - 1 <= Len(txt)
    /\ \A p \in i..(i + a - 1) : IsDigit(txt[p])
    /\ \A p \in (i + a)..(i + a + k - 1) : IsSeparator(txt[p])
    /\ \A p \in (i + a + k)..(i + a + k + c - 1) : IsDigit(txt[p])

\* the value read from a column found by header, Null when the column is absent
ColumnCell(r, col) == IF col # -1 THEN GetCell(r, col + 1) ELSE Null

\* l, b, h start at 0 and are parsed only when their column was found
ParsedDim(r, col) == IF col # -1 THEN ParseFloatOrZero(GetCell(r, col + 1)) ELSE Finite(0, 1)

\* String(cell.value || '')
TextOf(v) == IF Truthy(v) THEN JsString(v) ELSE <<>>

Negative(x) == x.num < 0

\* an upper bound test written with >= instead of >
TooLarge_Inclusive(x) == x.num >= 10000 * x.den

\* x > 10000
TooLarge(x) == x.num > 10000 * x.den

\* the verdict once l, b, h and txt have been read (code after the try block)
masswerteVerdict(l, b, h, txt) ==
  LET hasTextMeasurement == PatternTest(txt)
  IN  IF l.num = 0 /\ b.num = 0 /\ h.num = 0 /\ ~hasTextMeasurement
        THEN [valid |-> FALSE, error |-> Error("Alle Maße sind 0, aber kein Textmaß gefunden"),
              details |-> [l |-> l, b |-> b, h |-> h, hasTextMeasurement |-> hasTextMeasurement]]
      ELSE IF Negative(l) \/ Negative(b) \/ Negative(h)
        THEN [valid |-> FALSE, error |-> Error("Negative Maßwerte gefunden"),
              details |-> [l |-> l, b |-> b, h |-> h]]
      ELSE IF TooLarge(l) \/ TooLarge(b) \/ TooLarge(h)
        THEN [valid |-> FALSE, error |-> Error("Extrem große Maßwerte (über 10000)"),
              details |-> [l |-> l, b |-> b, h |-> h]]
      ELSE [valid |-> TRUE, error |-> NoError,
            details |-> [l |-> l, b |-> b, h |-> h, hasTextMeasurement |-> hasTextMeasurement]]

\* QualityChecker.checkMasswerte
checkMasswerte(r, hs) ==
  LET laengeCol   == findColumnByHeader(hs, LaengeTerms)
      breiteCol   == findColumnByHeader(hs, BreiteTerms)
      hoeheCol    == findColumnByHeader(hs, HoeheTerms)
      materialCol == findColumnByHeader(hs, MaterialTerms)
      cols        == {laengeCol, breiteCol, hoeheCol, materialCol}
  IN  IF \E c \in cols : ColumnCell(r, c).t = "throws"
        THEN [valid |-> FALSE, error |-> Error("Fehler beim Parsen der Maßwerte")]
        ELSE masswerteVerdict(ParsedDim(r, laengeCol), ParsedDim(r, breiteCol),
                              ParsedDim(r, hoeheCol), TextOf(ColumnCell(r, materialCol)))

\* an error list that stops at the first reason found
FilterErrors_FirstOnly(es) ==
  IF SelectSeq(es, LAMBDA e : ~e.null) = <<>> THEN <<>>
  ELSE <<Head(SelectSeq(es, LAMBDA e : ~e.null))>>

\* [a, b, c].filter(Boolean) on the three error values
FilterErrors(es) == SelectSeq(es, LAMBDA e : ~e.null)

\* a Gesamtbewertung that leaves the measurement verdict out
overallValid_NoMass(f, p, m) == f.valid /\ p.valid

\* Gesamtbewertung: isValid of checkQuality
overallValid(f, p, m) == f.valid /\ p.valid /\ m.valid

\* QualityChecker.checkQuality: the body of the row loop for one row
checkQualityRow(r, hs) ==
  LET fertPruefhinweisCol    == findColumnByHeader(hs, FertTerms)
      fertPruefhinweisResult == IF fertPruefhinweisCol # -1
                                  THEN checkFertPruefhinweis(GetCell(r, fertPruefhinweisCol + 1))
                                  ELSE [valid |-> TRUE, error |-> NoError]
      pflichtfelderResult    == checkPflichtfelder(r, hs)
      masswerteResult        == checkMasswerte(r, hs)
      isValid == overallValid(fertPruefhinweisResult, pflichtfelderResult, masswerteResult)
  IN  [fertPruefhinweis |-> fertPruefhinweisResult,
       pflichtfelder    |-> pflichtfelderResult,
       masswerte        |-> masswerteResult,
       isValid          |-> isValid,
       errors           |-> FilterErrors(<<fertPruefhinweisResult.error,
                                           pflichtfelderResult.error,
                                           masswerteResult.error>>)]

----------------------------------------------------------------------------
(* The inline implementation of server.js (runQualityCheck).               *)

\* the colMap key a header is assigned to by the if / else-if chain
HeaderKey(h) ==
  IF ~Truthy(h) THEN "none"
  ELSE LET headerStr == ToLowerCase(JsString(h))
       IN  IF Includes(headerStr, FertTerms[1]) \/ Includes(headerStr, FertTerms[2])
             THEN "fertPruefhinweis"
           ELSE IF Includes(headerStr, LaengeTerms[1]) THEN "laenge"
           ELSE IF Includes(headerStr, BreiteTerms[1]) THEN "breite"
           ELSE IF Includes(headerStr, HoeheTerms[1]) THEN "hoehe"
           ELSE IF Includes(headerStr, MaterialTerms[1]) \/ Includes(headerStr, MaterialTerms[2])
             THEN "materialkurztext"
           ELSE "none"

\* colMap[key] once headers.forEach has visited the indices 0..i:
\* a later header assigned to the key overwrites an earlier one
RECURSIVE colMapUpTo(_, _, _)
colMapUpTo(hs, key, i) ==
  IF i < 0 THEN -1
  ELSE IF HeaderKey(HeaderAt(hs, i)) = key THEN i
  ELSE colMapUpTo(hs, key, i - 1)

\* colMap[key] after headers.forEach, -1 standing for undefined
colMap(hs, key) == colMapUpTo(hs, key, Len(hs) - 1)

\* checkVollstaendig of runQualityCheck
checkVollstaendig(hinweis) ==
  IF ~Truthy(hinweis) THEN 1
  ELSE IF Len(Teile(hinweis)) # 5 THEN 1
  ELSE IF AllPartsValid(Teile(hinweis)) THEN 0 ELSE 1

\* checkPflichtfelder of runQualityCheck: returns 1 at the first missing cell
RECURSIVE inlinePflichtfelderFrom(_, _, _)
inlinePflichtfelderFrom(r, hs, k) ==
  IF k > Len(relevantIndices) THEN 0
  ELSE IF relevantIndices[k] < Len(hs) /\ CellMissing(GetCell(r, relevantIndices[k] + 1))
    THEN 1
  ELSE inlinePflichtfelderFrom(r, hs, k + 1)

inlineCheckPflichtfelder(r, hs) == inlinePflichtfelderFrom(r, hs, 1)

\* a checkMasspruefung that rejects every row whose dimensions are all 0
checkMasspruefung_NoTextMeasurement(r, hs) ==
  IF \E c \in {colMap(hs, "laenge"), colMap(hs, "breite"), colMap(hs, "hoehe"),
               colMap(hs, "materialkurztext")} : ColumnCell(r, c).t = "throws"
    THEN 1
  ELSE IF /\ ParsedDim(r, colMap(hs, "laenge")).num = 0
          /\ ParsedDim(r, colMap(hs, "breite")).num = 0
          /\ ParsedDim(r, colMap(hs, "hoehe")).num = 0
    THEN 1
  ELSE 0

\* checkMasspruefung of runQualityCheck
checkMasspruefung(r, hs) ==
  LET cols == {colMap(hs, "laenge"), colMap(hs, "breite"), colMap(hs, "hoehe"),
               colMap(hs, "materialkurztext")}
      l    == ParsedDim(r, colMap(hs, "laenge"))
      b    == ParsedDim(r, colMap(hs, "breite"))
      h    == ParsedDim(r, colMap(hs, "hoehe"))
      txt  == TextOf(ColumnCell(r, colMap(hs, "materialkurztext")))
  IN  IF \E c \in cols : ColumnCell(r, c).t = "throws" THEN 1
      ELSE IF l.num = 0 /\ b.num = 0 /\ h.num = 0
        THEN (IF PatternTest(txt) THEN 0 ELSE 1)
      ELSE 0

Max3(a, b, c) ==
  IF a >= b /\ a >= c THEN a ELSE IF b >= c THEN b ELSE c

\* runQualityCheck: the body of the row loop for one row
runQualityCheckRow(r, hs) ==
  LET fertPruefhinweisError == IF colMap(hs, "fertPruefhinweis") # -1
                                 THEN checkVollstaendig(GetCell(r, colMap(hs, "fertPruefhinweis") + 1))
                                 ELSE 0
      pflichtfelderError    == inlineCheckPflichtfelder(r, hs)
      massError             == checkMasspruefung(r, hs)
  IN  [fertPruefhinweisError |-> fertPruefhinweisError,
       pflichtfelderError    |-> pflichtfelderError,
       massError             |-> massError,
       gesamtError           |-> Max3(fertPruefhinweisError, pflichtfelderError, massError)]

----------------------------------------------------------------------------
(* Inputs: header rows and data rows of the sheet layout A..Z, in which    *)
(* C is the material short text, N the Fert./Prüfhinweis, S the net        *)
(* weight, U, V, W length, width, height and Z the A2V number.             *)

SheetWidth == 26

Filled == Str(<<"x">>)

StdHeaders ==
  SubSeq([i \in 1..SheetWidth |->
     CASE i = 3  -> Str(<<"M", "a", "t", "e", "r", "i", "a", "l", "-", "K", "u", "r", "z", "t", "e", "x", "t">>)
       [] i = 5  -> Str(<<"H", "e", "r", "s", "t", "e", "l", "l", "a", "r", "t", "i", "k", "e", "l", "n", "u", "m", "m", "e", "r">>)
       [] i = 14 -> Str(<<"F", "e", "r", "t", ".", "/", "P", "r", "ü", "f", "h", "i", "n", "w", "e", "i", "s">>)
       [] i = 16 -> Str(<<"W", "e", "r", "k", "s", "t", "o", "f", "f">>)
       [] i = 19 -> Str(<<"N", "e", "t", "t", "o", "g", "e", "w", "i", "c", "h", "t">>)
       [] i = 21 -> Str(<<"L", "ä", "n", "g", "e">>)
       [] i = 22 -> Str(<<"B", "r", "e", "i", "t", "e">>)
       [] i = 23 -> Str(<<"H", "ö", "h", "e">>)
       [] i = 26 -> Str(<<"A", "2", "V", "-", "N", "u", "m", "m", "e", "r">>)
       [] OTHER  -> Str(<<"F", "e", "l", "d">>)], 1, SheetWidth)

\* no header names the Fert./Prüfhinweis column
NoFertHeaders == [StdHeaders EXCEPT ![14] = Str(<<"H", "i", "n", "w", "e", "i", "s">>)]

\* the header row ends at column N
ShortHeaders == SubSeq(StdHeaders, 1, 14)

EmptyHeaders == <<>>

\* column D carries no header text
HoleHeaders == [StdHeaders EXCEPT ![4] = Null]

\* the length is kept in column X, which is not a mandatory column
ShiftedHeaders == [StdHeaders EXCEPT ![21] = Str(<<"F", "e", "l", "d">>), ![24] = Str(<<"L", "ä", "n", "g", "e">>)]

\* the columns W and X both carry the header of the height
TwinHeaders == [StdHeaders EXCEPT ![24] = Str(<<"H", "ö", "h", "e">>)]

HeaderLayouts ==
  {StdHeaders, NoFertHeaders, ShortHeaders, EmptyHeaders, HoleHeaders, ShiftedHeaders,
   TwinHeaders}

GoodFert == Str(<<"1", "/", "N", "/", "N", "/", "N", "/", "N">>)

Karton == Str(<<"K", "a", "r", "t", "o", "n">>)

\* a data row of len cells; xcell is the cell of column X, which no rule reads
\* outside the try block of the measurement check (it is the length column
\* under ShiftedHeaders), so a cell whose access raises is placed only there
MkRow(fert, text, dims, weight, jcell, xcell, len) ==
  SubSeq([i \in 1..SheetWidth |->
            CASE i = 3  -> text
              [] i = 10 -> jcell
              [] i \in {11, 12, 13, 15, 17, 25} -> Null
              [] i = 14 -> fert
              [] i = 19 -> weight
              [] i = 21 -> dims[1]
              [] i = 22 -> dims[2]
              [] i = 23 -> dims[3]
              [] i = 24 -> xcell
              [] i = 26 -> Str(<<"A", "2", "V", "0", "0", "0", "1", "2", "3", "4", "5">>)
              [] OTHER  -> Filled], 1, len)

FertValues ==
  {GoodFert, Str(<<"O", "H", "N", "E", "/", "N", "/", "N", "/", "N", "/", "N">>), Str(<<"o", "h", "n", "e", "/", "n", "/", "n", "/", "n", "/", "n">>), Str(<<"O", "H", "N", "E", "/", "N", "/", "N", "/", "N">>), Str(<<"X", "/", "N", "/", "N", "/", "N", "/", "N">>),
   Str(<<" ", "3", " ", "/", " ", "2", ".", "1", " ", "/", "C", "L", "2", "/", " ", "J", " ", "/", "A", "+", " ">>),
   Str(<<"1", "/", "N", "/", "N", "/", "N", "/", "N", "/", "N">>), Str(<<"2", "/", "3", ".", "2", "/", "C", "L", "1", "/", "J", "/", "A", "5">>), Str(<<"1", "/", "N", "/", "N", "/", "N", "/", "B">>),
   Str(<<"/", "/", "/", "/">>), Str(<<>>), Str(<<" ">>), Null, Num(0, 1), Num(5, 1)}

TextValues ==
  {Karton, Str(<<"1", "2", "x", "3", "4">>), Str(<<"1", "2", " ", "X", " ", "3", "4">>), Str(<<"1", "2", "×", "3", "4">>), Str(<<"1", "2", "*", "3", "4">>), Str(<<"1", "2", "/", "3", "4">>),
   Str(<<"n", "o", " ", "n", "u", "m", "b", "e", "r", "s", " ", "h", "e", "r", "e">>),
   Str(<<"1", "2", "3", "4", "5", "x", "6">>), Str(<<"1", "2", "-", "3", "4">>), Str(<<"1", "2", " ", " ", " ", " ", "3", "4">>),
   Null, Str(<<>>), Num(1234, 1)}

\* the longest run of separator characters in the generated texts
MaxSepRun == 4

SeparatorChars == {" ", "\t", "×", "x", "X", "*", "/", "-"}

RECURSIVE Repeat(_, _)
Repeat(c, k) == IF k = 0 THEN <<>> ELSE <<c>> \o Repeat(c, k - 1)

\* "12", k times the character c, "34"
SepText(c, k) == Str(<<"1", "2">> \o Repeat(c, k) \o <<"3", "4">>)

N10 == Num(10, 1)

GoodDims == <<N10, N10, N10>>

ZeroDims == <<Num(0, 1), Num(0, 1), Num(0, 1)>>

NegDims == <<Num(-1, 1), Num(5, 1), Num(5, 1)>>

BigDims == <<Num(20000, 1), Num(5, 1), Num(5, 1)>>

DimTriples ==
  {GoodDims, ZeroDims, NegDims, BigDims,
   <<Num(5, 1), Num(-1, 1), Num(5, 1)>>, <<Num(5, 1), Num(5, 1), Num(-5, 10)>>,
   <<Num(5, 1), Num(5, 1), Num(10001, 1)>>, <<Num(5, 1), Num(100001, 10), Num(5, 1)>>,
   <<Num(10000, 1), Num(10000, 1), Num(10000, 1)>>,
   <<Num(-1, 1), Num(20000, 1), Num(5, 1)>>, <<Num(0, 1), Num(0, 1), Num(-1, 1)>>,
   <<Num(0, 1), Num(0, 1), Num(5, 1)>>, <<Num(0, 1), Num(20000, 1), Num(0, 1)>>,
   <<Str(<<"0">>), Str(<<"0">>), Str(<<"0">>)>>, <<Null, Null, Null>>, <<Str(<<"a", "b", "c">>), Str(<<>>), Null>>,
   <<Str(<<"0", ",", "5">>), Str(<<"0", ",", "5">>), Str(<<"0", ",", "5">>)>>, <<Str(<<"0", ".", "5">>), Str(<<"0", ".", "5">>), Str(<<"0", ".", "5">>)>>,
   <<Str(<<"-", "3">>), Str(<<" ", "7">>), N10>>, <<Str(<<"2", "0", "0", "0", "0">>), N10, N10>>}

WeightValues == {Num(5, 1), Num(0, 1), Num(-3, 1), Str(<<"0">>), Str(<<"-", "3">>), Null}

MandValues == {Filled, Null, Str(<<>>), Str(<<" ">>), Num(0, 1), Str(<<"0">>), Num(7, 1)}

RowLengths == {SheetWidth, 10, 3}

\* the row r with the cells of the column numbers in cols replaced by v
ClearCells(r, cols, v) ==
  SubSeq([i \in 1..Len(r) |-> IF i \in cols THEN v ELSE r[i]], 1, Len(r))

\* a data row with every cell of A..Z filled
FullRow ==
  ClearCells(MkRow(GoodFert, Karton, GoodDims, Num(5, 1), Filled, Filled, SheetWidth),
             {11, 12, 13, 15, 17, 25}, Filled)

EmptyValues == {Null, Str(<<>>), Str(<<" ">>)}

\* column numbers of groups of mandatory cells that are empty together
ClearedGroups == {{2, 5}, {5, 14, 23}, {2, 3, 4, 5, 6, 7, 8, 9, 10}, {18, 19, 20, 21, 22, 23}}

RowPool ==
  {MkRow(f, Karton, GoodDims, Num(5, 1), Filled, Null, SheetWidth) : f \in FertValues}
  \cup {MkRow(GoodFert, tx[1], tx[2], Num(5, 1), Filled, Null, SheetWidth) :
          tx \in TextValues \X DimTriples}
  \cup {MkRow(GoodFert, Karton, dw[1], dw[2], Filled, Null, SheetWidth) :
          dw \in {GoodDims, ZeroDims, NegDims, BigDims} \X WeightValues}
  \cup {MkRow(GoodFert, Karton, GoodDims, Num(5, 1), ml[1], Null, ml[2]) :
          ml \in MandValues \X RowLengths}
  \cup {MkRow(c[1], Karton, c[2], Num(5, 1), c[3], Null, SheetWidth) :
          c \in {GoodFert, Str(<<"X", "/", "N", "/", "N", "/", "N", "/", "N">>)} \X {GoodDims, ZeroDims, NegDims} \X {Filled, Null}}
  \cup {MkRow(GoodFert, SepText(c[1], c[2]), c[3], Num(5, 1), Filled, Null, SheetWidth) :
          c \in SeparatorChars \X (0..MaxSepRun)
                 \X {ZeroDims, <<Str(<<"0">>), Str(<<"0">>), Str(<<"0">>)>>, NegDims}}
  \cup {MkRow(GoodFert, t, GoodDims, Num(5, 1), Filled, Throws, SheetWidth) :
          t \in {Karton, Str(<<"1", "2", "x", "3", "4">>)}}
  \cup {FullRow}
  \cup {ClearCells(FullRow, {relevantIndices[kv[1]] + 1}, kv[2]) :
          kv \in (1..Len(relevantIndices)) \X EmptyValues}
  \cup {ClearCells(FullRow, g, Null) : g \in ClearedGroups}

NoResult == [pending |-> TRUE]

\* no run is in progress
NoRun ==
  /\ inputBuffer = <<>> /\ impl = "none" /\ pc = "idle" /\ ws = <<>> /\ rowNum = 0
  /\ results = <<>> /\ totalRows = 0 /\ validRows = 0 /\ errorRows = 0
  /\ rowFill = <<>> /\ qualityWs = <<>> /\ releaseWs = <<>> /\ summaryData = <<>>
  /\ stats = NoResult

\* the scraper has been constructed and no request has arrived
NoScrape ==
  /\ browser = 0 /\ page = 0 /\ launched = 0 /\ calls = <<>> /\ closer = "idle"

\* no file has been posted to /api/web-search
NoSearch ==
  /\ file = <<>> /\ webWs = <<>> /\ tasks = <<>> /\ prodRows = <<>> /\ resultsMap = <<>>
  /\ structure = <<>> /\ step = "idle" /\ cursor = <<0, 0>>
  /\ foundCount = 0 /\ missingCount = 0 /\ diffCount = 0 /\ webFill = <<>>

\* neither the scraper nor the web search has been used
NoWeb == NoScrape /\ NoSearch

Init ==
  /\ headers \in HeaderLayouts
  /\ row \in RowPool
  /\ done = {}
  /\ rowRes = NoResult
  /\ srvRes = NoResult
  /\ NoRun
  /\ NoWeb

\* QualityChecker.checkQuality evaluates the row
CheckQualityRow ==
  /\ "checkQuality" \notin done
  /\ rowRes' = checkQualityRow(row, headers)
  /\ done' = done \cup {"checkQuality"}
  /\ UNCHANGED <<headers, row, srvRes, runVars, webVars>>

\* the inline runQualityCheck of server.js evaluates the row
RunQualityCheckRow ==
  /\ "runQualityCheck" \notin done
  /\ srvRes' = runQualityCheckRow(row, headers)
  /\ done' = done \cup {"runQualityCheck"}
  /\ UNCHANGED <<headers, row, rowRes, runVars, webVars>>

Next == CheckQualityRow \/ RunQualityCheckRow

Spec == Init /\ [][Next]_vars

----------------------------------------------------------------------------
(* A run of the quality check over a sheet: rows 1 and 2 carry the title,  *)
(* row 3 the headers, the data rows follow from row 4 on.                  *)

headerRow == 3

\* a start of the row loop at the header row
firstDataRow_HeaderRow == headerRow

firstDataRow == 4

\* row.hasValues
hasValues(r) == \E i \in 1..Len(r) : r[i].t # "null"

\* the cells of a row up to its last cell with a value
RECURSIVE StripNull(_)
StripNull(r) ==
  IF r # <<>> /\ r[Len(r)].t = "null" THEN StripNull(SubSeq(r, 1, Len(r) - 1)) ELSE r

\* headerRowObj.eachCell((cell, colNumber) => headers[colNumber - 1] = cell.value)
extractHeaders(r) == StripNull(r)

\* row.values: element i + 1 of the sequence is values[i]; values[0] is never set
rowValues(r) == IF hasValues(r) THEN <<Null>> \o StripNull(r) ELSE <<>>

\* array.slice(0, n)
Slice(a, n) == SubSeq(a, 1, IF n < Len(a) THEN n ELSE Len(a))

\* ws.columnCount: the largest number of cells of a row of the sheet
RECURSIVE columnCount(_)
columnCount(sheet) ==
  IF sheet = <<>> THEN 0
  ELSE LET m == columnCount(Tail(sheet))
       IN  IF Len(Head(sheet)) > m THEN Len(Head(sheet)) ELSE m

\* row.splice(start, 0, ...values) for a start behind the last cell of the row
splice(r, start, values) == r \o Repeat(Null, start - 1 - Len(r)) \o values

\* `${(count / total * 100).toFixed(digits)}%`; 0 / 0 is NaN.  No quotient of
\* the row counts of the modelled sheets lies at a rounding tie.
Percent(count, total, digits) ==
  IF total = 0
    THEN (IF count = 0 THEN <<"N", "a", "N", "%">>
          ELSE <<"I", "n", "f", "i", "n", "i", "t", "y", "%">>)
  ELSE LET scale == Pow10(digits)
           q     == (2 * count * 100 * scale + total) \div (2 * total)
       IN  NatDigits(q \div scale) \o <<".">> \o FracDigits(q % scale, scale) \o <<"%">>

NoFill == [argb |-> "none", cells |-> {}]

\* the rows ws.eachRow visits from row n on, as qualityWs.addRow(row.values)
\* with the fill fills[n]
RECURSIVE reportRows(_, _, _)
reportRows(sheet, fills, n) ==
  IF n > Len(sheet) THEN <<>>
  ELSE (IF hasValues(sheet[n])
          THEN <<[rowNumber |-> n, values |-> rowValues(sheet[n]), fill |-> fills[n]]>>
          ELSE <<>>)
       \o reportRows(sheet, fills, n + 1)

(* QualityChecker.checkQuality *)

\* an entry whose overall verdict also depends on the rows counted before
resultEntry_Sticky(n, r, hs) ==
  [rowNum |-> n, isValid |-> checkQualityRow(r, hs).isValid /\ errorRows = 0]
  @@ checkQualityRow(r, hs)

\* the entry pushed to results for the row rowNum
resultEntry(n, r, hs) == [rowNum |-> n] @@ checkQualityRow(r, hs)

\* if (isValid) validRows++
nextValidRows(isValid, n) == IF isValid THEN n + 1 ELSE n

\* a counter that counts every row as a row with errors
nextErrorRows_Always(isValid, n) == n + 1

\* else errorRows++
nextErrorRows(isValid, n) == IF isValid THEN n ELSE n + 1

\* QualityChecker.colorRow: the fill given to every cell of the row that has a value
colorRow(r, isValid) ==
  [argb  |-> IF isValid THEN "FFD5F4E6" ELSE "FFFFCCCC",
   cells |-> {c \in 1..Len(r) : r[c].t # "null"}]

\* results.find(r => r.rowNum === rowNum), NoResult standing for undefined
findResult(res, n) ==
  IF \E i \in 1..Len(res) : res[i].rowNum = n
    THEN res[CHOOSE i \in 1..Len(res) :
               res[i].rowNum = n /\ \A j \in 1..(i - 1) : res[j].rowNum # n]
    ELSE NoResult

\* a release test that lets every evaluated row pass
isReleased_Any(result) == result # NoResult

\* result && result.isValid
isReleased(result) == result # NoResult /\ result.isValid

\* the rows the second loop of checkQuality adds to releaseWs from row n on
RECURSIVE releaseRows(_, _, _, _)
releaseRows(sheet, res, hs, n) ==
  IF n > Len(sheet) THEN <<>>
  ELSE (IF hasValues(sheet[n]) /\ isReleased(findResult(res, n))
          THEN <<[rowNum |-> n, values |-> Slice(rowValues(sheet[n]), Len(hs))]>>
          ELSE <<>>)
       \o releaseRows(sheet, res, hs, n + 1)

\* summaryData of checkQuality: label, Anzahl, Prozent
classSummary(res, total, valid, errs) ==
  <<<<"", "Anzahl", "Prozent">>,
    <<"Gesamt", total, <<"1", "0", "0", "%">>>>,
    <<"Fehlerfrei", valid, Percent(valid, total, 1)>>,
    <<"Mit Fehlern", errs, Percent(errs, total, 1)>>,
    <<"", "", "">>,
    <<"Fehlertypen:", "", "">>,
    <<"Fert./Prüfhinweis", Len(SelectSeq(res, LAMBDA r : ~r.fertPruefhinweis.valid)),
      Percent(Len(SelectSeq(res, LAMBDA r : ~r.fertPruefhinweis.valid)), total, 1)>>,
    <<"Pflichtfelder", Len(SelectSeq(res, LAMBDA r : ~r.pflichtfelder.valid)),
      Percent(Len(SelectSeq(res, LAMBDA r : ~r.pflichtfelder.valid)), total, 1)>>,
    <<"Maßwerte", Len(SelectSeq(res, LAMBDA r : ~r.masswerte.valid)),
      Percent(Len(SelectSeq(res, LAMBDA r : ~r.masswerte.valid)), total, 1)>>>>

(* runQualityCheck of server.js *)

\* the entry pushed to results for the row rowNum
inlineResultEntry(n, r, hs) == [row |-> n] @@ runQualityCheckRow(r, hs)

\* row.splice(ws.columnCount + 1, 0, the four error values)
addErrorColumns(r, sheet, e) ==
  splice(r, columnCount(sheet) + 1,
         <<Num(e.fertPruefhinweisError, 1), Num(e.pflichtfelderError, 1),
           Num(e.massError, 1), Num(e.gesamtError, 1)>>)

\* headerRowObj2.splice(ws.columnCount + 1, 0, the four error column headers)
addErrorHeaders(r, sheet) ==
  splice(r, columnCount(sheet) + 1,
         <<Str(<<"F", "e", "h", "l", "e", "r", "_", "F", "e", "r", "t">>),
           Str(<<"F", "e", "h", "l", "e", "r", "_", "B", "-", "J", "+", "N", "+", "R", "-", "W">>),
           Str(<<"F", "e", "h", "l", "e", "r", "_", "M", "a", "ß">>),
           Str(<<"F", "e", "h", "l", "e", "r">>)>>)

\* row.values[row.values.length - 1]
errorValue(r) == rowValues(r)[Len(rowValues(r))]

\* the colour code of the report: only cells behind ws.columnCount are filled
inlineFill(sheet, n) ==
  IF n > headerRow /\ hasValues(sheet[n]) /\ errorValue(sheet[n]) = Num(1, 1)
    THEN [argb |-> "FFFFCCCC", cells |-> {c \in 1..Len(sheet[n]) : c > columnCount(sheet)}]
  ELSE IF n > headerRow /\ hasValues(sheet[n]) /\ errorValue(sheet[n]) = Num(0, 1)
    THEN [argb |-> "FFD5F4E6", cells |-> {c \in 1..Len(sheet[n]) : c > columnCount(sheet)}]
  ELSE NoFill

\* the rows the second loop of runQualityCheck adds to releaseWs from row n on
RECURSIVE inlineReleaseRows(_, _)
inlineReleaseRows(sheet, n) ==
  IF n > Len(sheet) THEN <<>>
  ELSE (IF hasValues(sheet[n]) /\ errorValue(sheet[n]) = Num(0, 1)
          THEN <<[rowNum |-> n, values |-> Slice(rowValues(sheet[n]), columnCount(sheet))]>>
          ELSE <<>>)
       \o inlineReleaseRows(sheet, n + 1)

\* summaryData of runQualityCheck: label, Fehleranzahl, Fehlerquote
inlineSummary(res, total, valid) ==
  <<<<"", "Fehleranzahl", "Fehlerquote">>,
    <<"Gesamt", total - valid, Percent(total - valid, total, 2)>>,
    <<"Vollständigkeit_Pflichtfeld", Len(SelectSeq(res, LAMBDA r : r.pflichtfelderError = 1)),
      Percent(Len(SelectSeq(res, LAMBDA r : r.pflichtfelderError = 1)), total, 2)>>,
    <<"Vollständigkeit_Fert./Prüfhinweis", Len(SelectSeq(res, LAMBDA r : r.fertPruefhinweisError = 1)),
      Percent(Len(SelectSeq(res, LAMBDA r : r.fertPruefhinweisError = 1)), total, 2)>>,
    <<"Gültigkeit_Maß", Len(SelectSeq(res, LAMBDA r : r.massError = 1)),
      Percent(Len(SelectSeq(res, LAMBDA r : r.massError = 1)), total, 2)>>>>

(* The sheets of the runs. *)

\* the largest number of data rows of a sheet
MaxRows == 3

BadFert == Str(<<"X", "/", "N", "/", "N", "/", "N", "/", "N">>)

NotANumber == Str(<<"a", "b", "c">>)

\* a row without error
ValidRow == MkRow(GoodFert, Karton, GoodDims, Num(5, 1), Filled, Null, SheetWidth)

\* the structured code is the only rule that fails
FertRow == MkRow(BadFert, Karton, GoodDims, Num(5, 1), Filled, Null, SheetWidth)

\* column J holds white space: the mandatory fields are the only rule that fails
PflichtRow == MkRow(GoodFert, Karton, GoodDims, Num(5, 1), Str(<<" ">>), Null, SheetWidth)

\* the dimensions are not numbers: the measurement is the only rule that fails
MassRow ==
  MkRow(GoodFert, Karton, <<NotANumber, NotANumber, NotANumber>>, Num(5, 1), Filled, Null, SheetWidth)

\* the row ends at column C: all three rules fail
ShortRow == MkRow(GoodFert, Karton, GoodDims, Num(5, 1), Filled, Null, 3)

\* a row without values
BlankRow == <<>>

RunRows == {ValidRow, FertRow, PflichtRow, MassRow, ShortRow, BlankRow}

TitleRow == <<Str(<<"Q", "M", "P">>)>>

\* the header rows of the sheets: with and without a Fert./Prüfhinweis column
RunHeaders == {StdHeaders, NoFertHeaders}

Sheets ==
  {<<TitleRow, BlankRow, hs>> \o d :
     hs \in RunHeaders, d \in UNION {[1..k -> RunRows] : k \in 0..MaxRows}}

RunInit ==
  /\ inputBuffer \in Sheets
  /\ impl \in {"QualityChecker", "runQualityCheck"}
  /\ pc = "start"
  /\ ws = <<>> /\ headers = <<>> /\ rowNum = 0
  /\ results = <<>> /\ totalRows = 0 /\ validRows = 0 /\ errorRows = 0
  /\ rowFill = <<>> /\ qualityWs = <<>> /\ releaseWs = <<>> /\ summaryData = <<>>
  /\ stats = NoResult
  /\ row = <<>> /\ done = {} /\ rowRes = NoResult /\ srvRes = NoResult
  /\ NoWeb

\* checkQuality loads the workbook and extracts the headers of row 3
CheckQualityLoad ==
  /\ impl = "QualityChecker" /\ pc = "start"
  /\ ws' = inputBuffer
  /\ headers' = extractHeaders(inputBuffer[headerRow])
  /\ rowNum' = firstDataRow
  /\ rowFill' = [n \in 1..Len(inputBuffer) |-> NoFill]
  /\ pc' = "loop"
  /\ UNCHANGED <<rowVars, inputBuffer, impl, results, totalRows, validRows, errorRows,
                 qualityWs, releaseWs, summaryData, stats>>
  /\ UNCHANGED webVars

\* one iteration of the row loop of checkQuality; the entry pushed for the
\* row is the last element of results'
CheckQualityNextRow ==
  /\ impl = "QualityChecker" /\ pc = "loop"
  /\ rowNum <= Len(ws)
  /\ rowNum' = rowNum + 1
  /\ results' = IF hasValues(ws[rowNum])
                  THEN Append(results, resultEntry(rowNum, ws[rowNum], headers))
                  ELSE results
  /\ totalRows' = IF hasValues(ws[rowNum]) THEN totalRows + 1 ELSE totalRows
  /\ validRows' = IF hasValues(ws[rowNum])
                    THEN nextValidRows(results'[Len(results')].isValid, validRows)
                    ELSE validRows
  /\ errorRows' = IF hasValues(ws[rowNum])
                    THEN nextErrorRows(results'[Len(results')].isValid, errorRows)
                    ELSE errorRows
  /\ rowFill' = IF hasValues(ws[rowNum])
                  THEN [rowFill EXCEPT ![rowNum] = colorRow(ws[rowNum], results'[Len(results')].isValid)]
                  ELSE rowFill
  /\ UNCHANGED <<headers, rowVars, inputBuffer, impl, pc, ws, qualityWs, releaseWs,
                 summaryData, stats>>
  /\ UNCHANGED webVars

\* checkQuality after the row loop: report, release list, summary and stats
CheckQualityReport ==
  /\ impl = "QualityChecker" /\ pc = "loop"
  /\ rowNum > Len(ws)
  /\ qualityWs' = reportRows(ws, rowFill, 1)
  /\ releaseWs' = <<[rowNum |-> headerRow, values |-> headers]>>
                  \o releaseRows(ws, results, headers, firstDataRow)
  /\ summaryData' = classSummary(results, totalRows, validRows, errorRows)
  /\ stats' = [total |-> totalRows, valid |-> validRows, invalid |-> errorRows]
  /\ pc' = "done"
  /\ UNCHANGED <<headers, rowVars, inputBuffer, impl, ws, rowNum, results, totalRows,
                 validRows, errorRows, rowFill>>
  /\ UNCHANGED webVars

\* runQualityCheck loads the workbook and extracts the headers of row 3
RunQualityCheckLoad ==
  /\ impl = "runQualityCheck" /\ pc = "start"
  /\ ws' = inputBuffer
  /\ headers' = extractHeaders(inputBuffer[headerRow])
  /\ rowNum' = firstDataRow
  /\ rowFill' = [n \in 1..Len(inputBuffer) |-> NoFill]
  /\ pc' = "loop"
  /\ UNCHANGED <<rowVars, inputBuffer, impl, results, totalRows, validRows, errorRows,
                 qualityWs, releaseWs, summaryData, stats>>
  /\ UNCHANGED webVars

\* one iteration of the row loop of runQualityCheck; the entry pushed for the
\* row is the last element of results'
RunQualityCheckNextRow ==
  /\ impl = "runQualityCheck" /\ pc = "loop"
  /\ rowNum <= Len(ws)
  /\ rowNum' = rowNum + 1
  /\ results' = IF hasValues(ws[rowNum])
                  THEN Append(results, inlineResultEntry(rowNum, ws[rowNum], headers))
                  ELSE results
  /\ totalRows' = IF hasValues(ws[rowNum]) THEN totalRows + 1 ELSE totalRows
  /\ validRows' = IF hasValues(ws[rowNum])
                    THEN nextValidRows(results'[Len(results')].gesamtError = 0, validRows)
                    ELSE validRows
  /\ ws' = IF hasValues(ws[rowNum])
             THEN [ws EXCEPT ![rowNum] = addErrorColumns(ws[rowNum], ws, results'[Len(results')])]
             ELSE ws
  /\ UNCHANGED <<headers, rowVars, inputBuffer, impl, pc, errorRows, rowFill, qualityWs,
                 releaseWs, summaryData, stats>>
  /\ UNCHANGED webVars

\* runQualityCheck after the row loop: error headers, report, release list,
\* summary and stats
RunQualityCheckReport ==
  /\ impl = "runQualityCheck" /\ pc = "loop"
  /\ rowNum > Len(ws)
  /\ LET sheet == [ws EXCEPT ![headerRow] = addErrorHeaders(ws[headerRow], ws)]
     IN  /\ ws' = sheet
         /\ qualityWs' = reportRows(sheet, [n \in 1..Len(sheet) |-> inlineFill(sheet, n)], 1)
         /\ releaseWs' = <<[rowNum |-> headerRow, values |-> headers]>>
                         \o inlineReleaseRows(sheet, firstDataRow)
  /\ summaryData' = inlineSummary(results, totalRows, validRows)
  /\ stats' = [total |-> totalRows, valid |-> validRows, invalid |-> totalRows - validRows]
  /\ pc' = "done"
  /\ UNCHANGED <<headers, rowVars, inputBuffer, impl, rowNum, results, totalRows,
                 validRows, errorRows, rowFill>>
  /\ UNCHANGED webVars

RunNext ==
  \/ CheckQualityLoad
  \/ CheckQualityNextRow
  \/ CheckQualityReport
  \/ RunQualityCheckLoad
  \/ RunQualityCheckNextRow
  \/ RunQualityCheckReport

RunSpec == RunInit /\ [][RunNext]_vars

----------------------------------------------------------------------------
(* SiemensProductScraper (scraper.js): the scrapeMany calls of the HTTP    *)
(* requests on the one scraper object of server.js.  An async function     *)
(* runs up to its next await in one step; at every await the continuation  *)
(* of another call may run first.                                          *)

\* the largest number of overlapping requests
MaxRequests == 2

\* the largest number of A2V numbers of all requests together
MaxInput == 3

\* the largest value of the parameter concurrency
MaxConcurrency == 2

Requests == 1..MaxRequests

A2V1 == <<"A", "2", "V", "1">>

A2V2 == <<"A", "2", "V", "2">>

Numbers == {A2V1, A2V2}

\* the arrays of A2V numbers a request passes, duplicates included
Inputs == UNION {[1..n -> Numbers] : n \in 0..MaxInput}

\* SCRAPE_CONCURRENCY, positive
Concurrencies == 1..MaxConcurrency

\* new Map()
EmptyMap == <<>>

\* map.set(k, v)
MapSet(m, k, v) == [x \in (DOMAIN m) \cup {k} |-> IF x = k THEN v ELSE m[x]]

\* generateMockData: parseInt of a last character that is no digit is NaN,
\* and NaN % 2 === 0 is false
generateMockData(a2vNumber) ==
  IF /\ a2vNumber # <<>>
     /\ IsDigit(a2vNumber[Len(a2vNumber)])
     /\ DigitVal(a2vNumber[Len(a2vNumber)]) % 2 = 0
    THEN [Produkttitel            |-> <<"S", "i", "e", "m", "e", "n", "s", " ">> \o a2vNumber
                                      \o <<" ", "-", " ", "A", "u", "t", "o", "m", "a", "t", "i", "s", "i", "e", "r", "u", "n", "g", "s", "k", "o", "m", "p", "o", "n", "e", "n", "t", "e">>,
          WeitereArtikelnummer    |-> a2vNumber,
          Materialklassifizierung |-> <<"M", "e", "t", "a", "l", "l">>,
          Werkstoff               |-> <<"E", "d", "e", "l", "s", "t", "a", "h", "l", " ", "V", "2", "A">>,
          Gewicht                 |-> <<"2", ".", "5", " ", "k", "g">>,
          Abmessung               |-> <<"1", "2", "0", " ", "x", " ", "8", "0", " ", "x", " ", "4", "5", " ", "m", "m">>]
    ELSE [Produkttitel            |-> <<"S", "i", "e", "m", "e", "n", "s", " ">> \o a2vNumber
                                      \o <<" ", "-", " ", "S", "e", "n", "s", "o", "r", "i", "k", " ", "M", "o", "d", "u", "l">>,
          WeitereArtikelnummer    |-> a2vNumber,
          Materialklassifizierung |-> <<"K", "u", "n", "s", "t", "s", "t", "o", "f", "f">>,
          Werkstoff               |-> <<"P", "o", "l", "y", "c", "a", "r", "b", "o", "n", "a", "t">>,
          Gewicht                 |-> <<"1", "5", "0", " ", "g">>,
          Abmessung               |-> <<"6", "0", " ", "x", " ", "4", "0", " ", "x", " ", "2", "5", " ", "m", "m">>]

\* a chunkArray that puts the whole array into one chunk
chunkArray_OneChunk(array, size) == <<array>>

\* the loop of chunkArray from index i on
RECURSIVE chunksFrom(_, _, _)
chunksFrom(array, size, i) ==
  IF i >= Len(array) THEN <<>>
  ELSE <<SubSeq(array, i + 1, IF i + size < Len(array) THEN i + size ELSE Len(array))>>
       \o chunksFrom(array, size, i + size)

\* SiemensProductScraper.chunkArray
chunkArray(array, size) == chunksFrom(array, size, 0)

\* the reason a scrapeOne promise is rejected with
Reason == [message |-> "Navigation timeout"]

\* what chunkResults.forEach sets for one settled promise
settledValue(status, a2v) ==
  IF status = "fulfilled" THEN generateMockData(a2v) ELSE [error |-> Reason.message]

\* a forEach that stops at the first rejected promise
setResults_StopAtRejected(results_, chunk, statuses, i) ==
  IF \E j \in 1..Len(chunk) : statuses[j] = "rejected" THEN results_
  ELSE [x \in (DOMAIN results_) \cup {chunk[j] : j \in 1..Len(chunk)} |->
          IF \E j \in 1..Len(chunk) : chunk[j] = x THEN generateMockData(x) ELSE results_[x]]

\* chunkResults.forEach((result, index) => results.set(chunk[index], ...)) from index i on
RECURSIVE setResults(_, _, _, _)
setResults(results_, chunk, statuses, i) ==
  IF i > Len(chunk) THEN results_
  ELSE setResults(MapSet(results_, chunk[i], settledValue(statuses[i], chunk[i])),
                  chunk, statuses, i + 1)

\* a request that has not called scrapeMany
IdleCall ==
  [pc          |-> "idle",
   a2vNumbers  |-> <<>>,
   concurrency |-> 0,
   launch      |-> 0,
   chunks      |-> <<>>,
   chunk       |-> 0,
   promises    |-> <<>>,
   results     |-> EmptyMap,
   started     |-> <<>>,
   settled     |-> <<>>]

\* the promises of chunk.map(a2v => this.scrapeOne(a2v)): each scrapeOne runs
\* up to its sleep
Pending(chunk) == [i \in 1..Len(chunk) |-> "pending"]

\* the A2V numbers the calls of the other requests were given
RECURSIVE InputTotal(_)
InputTotal(rs) ==
  IF rs = {} THEN 0
  ELSE LET r == CHOOSE x \in rs : TRUE
       IN  Len(calls[r].a2vNumbers) + InputTotal(rs \ {r})

ScrapeInit ==
  /\ headers = <<>> /\ row = <<>> /\ done = {} /\ rowRes = NoResult /\ srvRes = NoResult
  /\ NoRun
  /\ NoSearch
  /\ browser = 0 /\ page = 0 /\ launched = 0
  /\ calls = [r \in Requests |-> IdleCall]
  /\ closer = "idle"

\* scrapeMany up to its first await: the empty input returns at once, else
\* init runs up to its first await, launching a browser when this.browser is
\* not set
ScrapeMany(r) ==
  /\ closer # "exited"
  /\ calls[r].pc = "idle"
  /\ \E a2vNumbers \in Inputs, concurrency \in Concurrencies :
       /\ Len(a2vNumbers) + InputTotal(Requests \ {r}) <= MaxInput
       /\ IF Len(a2vNumbers) = 0
            THEN /\ calls' = [calls EXCEPT ![r].pc = "returned", ![r].concurrency = concurrency]
                 /\ UNCHANGED launched
          ELSE IF browser = 0
            THEN /\ launched' = launched + 1
                 /\ calls' = [calls EXCEPT ![r].pc = "launch", ![r].a2vNumbers = a2vNumbers,
                                           ![r].concurrency = concurrency,
                                           ![r].launch = launched + 1]
          ELSE /\ calls' = [calls EXCEPT ![r].pc = "initDone", ![r].a2vNumbers = a2vNumbers,
                                         ![r].concurrency = concurrency]
               /\ UNCHANGED launched
  /\ UNCHANGED <<browser, page, closer, checkVars, searchVars>>

\* init: puppeteer.launch has resolved; this.browser is set and newPage called
LaunchDone(r) ==
  /\ closer # "exited"
  /\ calls[r].pc = "launch"
  /\ browser' = calls[r].launch
  /\ calls' = [calls EXCEPT ![r].pc = "newPage"]
  /\ UNCHANGED <<page, launched, closer, checkVars, searchVars>>

\* init: newPage has resolved; this.page is set and setUserAgent called
NewPageDone(r) ==
  /\ closer # "exited"
  /\ calls[r].pc = "newPage"
  /\ page' = calls[r].launch
  /\ calls' = [calls EXCEPT ![r].pc = "configure"]
  /\ UNCHANGED <<browser, launched, closer, checkVars, searchVars>>

\* init: setUserAgent and setDefaultTimeout have resolved; init returns
Configured(r) ==
  /\ closer # "exited"
  /\ calls[r].pc = "configure"
  /\ calls' = [calls EXCEPT ![r].pc = "initDone"]
  /\ UNCHANGED <<browser, page, launched, closer, checkVars, searchVars>>

\* scrapeMany behind await this.init(): the chunks are cut and the scrapeOne
\* calls of the first chunk are started
StartChunks(r) ==
  /\ closer # "exited"
  /\ calls[r].pc = "initDone"
  /\ calls' = [calls EXCEPT
       ![r].pc = "chunk",
       ![r].results = EmptyMap,
       ![r].chunks = chunkArray(calls[r].a2vNumbers, calls[r].concurrency),
       ![r].chunk = 1,
       ![r].promises = Pending(chunkArray(calls[r].a2vNumbers, calls[r].concurrency)[1]),
       ![r].started = chunkArray(calls[r].a2vNumbers, calls[r].concurrency)[1]]
  /\ UNCHANGED <<browser, page, launched, closer, checkVars, searchVars>>

\* the promise of one scrapeOne call of the current chunk settles
Settle(r) ==
  /\ closer # "exited"
  /\ calls[r].pc = "chunk"
  /\ \E i \in 1..Len(calls[r].promises), status \in {"fulfilled", "rejected"} :
       /\ calls[r].promises[i] = "pending"
       /\ calls' = [calls EXCEPT ![r].promises[i] = status]
  /\ UNCHANGED <<browser, page, launched, closer, checkVars, searchVars>>

\* Promise.allSettled has resolved: forEach sets the results of the chunk,
\* then the pause between chunks begins
ChunkSettled(r) ==
  /\ closer # "exited"
  /\ calls[r].pc = "chunk"
  /\ \A i \in 1..Len(calls[r].promises) : calls[r].promises[i] # "pending"
  /\ calls' = [calls EXCEPT
       ![r].pc = "sleep",
       ![r].results = setResults(calls[r].results, calls[r].chunks[calls[r].chunk],
                                 calls[r].promises, 1),
       ![r].settled = calls[r].settled \o calls[r].promises]
  /\ UNCHANGED <<browser, page, launched, closer, checkVars, searchVars>>

\* the pause is over: the scrapeOne calls of the next chunk are started, or
\* scrapeMany returns results
Wake(r) ==
  /\ closer # "exited"
  /\ calls[r].pc = "sleep"
  /\ IF calls[r].chunk < Len(calls[r].chunks)
       THEN calls' = [calls EXCEPT
              ![r].pc = "chunk",
              ![r].chunk = calls[r].chunk + 1,
              ![r].promises = Pending(calls[r].chunks[calls[r].chunk + 1]),
              ![r].started = calls[r].started \o calls[r].chunks[calls[r].chunk + 1]]
       ELSE calls' = [calls EXCEPT ![r].pc = "returned", ![r].promises = <<>>]
  /\ UNCHANGED <<browser, page, launched, closer, checkVars, searchVars>>

\* SIGTERM or SIGINT: close() up to its await, or, without browser, close()
\* and process.exit
Close ==
  /\ closer = "idle"
  /\ closer' = IF browser # 0 THEN "closing" ELSE "exited"
  /\ UNCHANGED <<browser, page, launched, calls, checkVars, searchVars>>

\* browser.close() has resolved: browser and page are reset, the process exits
CloseDone ==
  /\ closer = "closing"
  /\ browser' = 0
  /\ page' = 0
  /\ launched' = 0
  /\ closer' = "exited"
  /\ UNCHANGED <<calls, checkVars, searchVars>>

ScrapeNext ==
  \/ \E r \in Requests : ScrapeMany(r)
  \/ \E r \in Requests : LaunchDone(r)
  \/ \E r \in Requests : NewPageDone(r)
  \/ \E r \in Requests : Configured(r)
  \/ \E r \in Requests : StartChunks(r)
  \/ \E r \in Requests : Settle(r)
  \/ \E r \in Requests : ChunkSettled(r)
  \/ \E r \in Requests : Wake(r)
  \/ Close
  \/ CloseDone

ScrapeSpec == ScrapeInit /\ [][ScrapeNext]_vars

\* the event loop runs every continuation that is ready, timers fire and the
\* browser answers; every scrapeOne promise eventually settles.  Requests and
\* shutdown signals arrive or not.
ScrapeFair ==
  /\ \A r \in Requests :
       /\ WF_vars(LaunchDone(r))
       /\ WF_vars(NewPageDone(r))
       /\ WF_vars(Configured(r))
       /\ WF_vars(StartChunks(r))
       /\ WF_vars(Settle(r))
       /\ WF_vars(ChunkSettled(r))
       /\ WF_vars(Wake(r))
  /\ WF_vars(CloseDone)

ScrapeLive == ScrapeInit /\ [][ScrapeNext]_vars /\ ScrapeFair

----------------------------------------------------------------------------
(* The web search of server.js: /api/web-search collects the A2V numbers   *)
(* of the sheet, scrapes them, inserts a web column right of each of the   *)
(* eight compared columns and a label row, and compares cell by cell.      *)

\* the largest number of data rows of an uploaded sheet
MaxProdRows == 2

HEADER_ROW == 3

LABEL_ROW == 4

FIRST_DATA_ROW == 5

\* String.prototype.toUpperCase: one character may become two
UpperOf(c) ==
  IF \E i \in 1..Len(LowerChars) : LowerChars[i] = c
    THEN <<UpperChars[CHOOSE i \in 1..Len(LowerChars) : LowerChars[i] = c]>>
  ELSE IF c = "ß" THEN <<"S", "S">>
  ELSE <<c>>

RECURSIVE ToUpperCase(_)
ToUpperCase(s) ==
  IF s = <<>> THEN <<>> ELSE UpperOf(Head(s)) \o ToUpperCase(Tail(s))

\* String.prototype.startsWith
StartsWith(s, prefix) ==
  /\ Len(prefix) <= Len(s)
  /\ \A k \in 1..Len(prefix) : s[k] = prefix[k]

\* (cell.value || '').toString().trim().toUpperCase()
A2vOf(v) == IF Truthy(v) THEN ToUpperCase(Trim(JsString(v))) ELSE <<>>

\* getColumnIndex: the letters are read as digits to the base 26
RECURSIVE getColumnIndex(_)
getColumnIndex(letter) ==
  IF letter = <<>> THEN 0
  ELSE getColumnIndex(SubSeq(letter, 1, Len(letter) - 1)) * 26
       + (CHOOSE i \in 1..26 : UpperChars[i] = letter[Len(letter)])

ORIGINAL_Z == <<"Z">>

DB_WEB_PAIRS ==
  << [original |-> <<"C">>, label |-> "Material-Kurztext"],
     [original |-> <<"E">>, label |-> "Herstellartikelnummer"],
     [original |-> <<"N">>, label |-> "Fert./Prüfhinweis"],
     [original |-> <<"P">>, label |-> "Werkstoff"],
     [original |-> <<"S">>, label |-> "Nettogewicht"],
     [original |-> <<"U">>, label |-> "Länge"],
     [original |-> <<"V">>, label |-> "Breite"],
     [original |-> <<"W">>, label |-> "Höhe"] >>

\* the pairs loop of calculateNewColumnStructure: the k-th pair has k - 1
\* inserted columns to its left
newPairs ==
  [k \in 1..Len(DB_WEB_PAIRS) |->
     LET adjustedOriginalIndex == getColumnIndex(DB_WEB_PAIRS[k].original) + (k - 1)
     IN  [original |-> DB_WEB_PAIRS[k].original,
          label    |-> DB_WEB_PAIRS[k].label,
          dbCol    |-> getColumnLetter(adjustedOriginalIndex),
          webCol   |-> getColumnLetter(adjustedOriginalIndex + 1)]]

isPairColumn(originalLetter) ==
  \E k \in 1..Len(DB_WEB_PAIRS) : DB_WEB_PAIRS[k].original = originalLetter

insertedBefore(colIndex) ==
  Cardinality({k \in 1..Len(DB_WEB_PAIRS) : getColumnIndex(DB_WEB_PAIRS[k].original) < colIndex})

\* calculateNewColumnStructure: lastCol is ws.lastColumn.number, the column
\* count of the sheet
calculateNewColumnStructure(sheet) ==
  LET lastCol == columnCount(sheet)
      others  == {originalLetter \in {getColumnLetter(colIndex) : colIndex \in 1..lastCol} :
                    ~isPairColumn(originalLetter)}
  IN  [pairs             |-> newPairs,
       otherCols         |-> [originalLetter \in others |->
                                getColumnLetter(getColumnIndex(originalLetter)
                                                + insertedBefore(getColumnIndex(originalLetter)))],
       totalInsertedCols |-> Len(DB_WEB_PAIRS)]

\* ws.getCell(letter + row).value
CellAt(sheet, letter, n) ==
  IF n <= Len(sheet) THEN GetCell(sheet[n], getColumnIndex(letter)) ELSE Null

\* a row that holds cells up to the column: getCell creates the cells it reads
PadRow(r, col) ==
  IF col > Len(r) THEN r \o [i \in 1..(col - Len(r)) |-> Null] ELSE r

\* ws.getCell(letter + row).value = v
SetCell(sheet, letter, n, v) ==
  LET rows_ == IF n > Len(sheet) THEN sheet \o [i \in 1..(n - Len(sheet)) |-> <<>>] ELSE sheet
      col   == getColumnIndex(letter)
  IN  [rows_ EXCEPT ![n] = [PadRow(rows_[n], col) EXCEPT ![col] = v]]

\* row.splice(pos, 0, null): the cells from pos on move one to the right
spliceCell(r, pos) ==
  IF pos <= Len(r)
    THEN SubSeq(r, 1, pos - 1) \o <<Null>> \o SubSeq(r, pos, Len(r))
    ELSE PadRow(r, pos)

\* ws.spliceColumns(pos, 0, [null])
spliceColumns(sheet, pos) == [n \in 1..Len(sheet) |-> spliceCell(sheet[n], pos)]

\* ws.spliceRows(pos, 0, [null])
spliceRows(sheet, pos) ==
  IF pos <= Len(sheet)
    THEN SubSeq(sheet, 1, pos - 1) \o <<(<<>>)>> \o SubSeq(sheet, pos, Len(sheet))
    ELSE sheet \o [i \in 1..(pos - Len(sheet)) |-> <<>>]

\* an insertion order that walks the pairs from left to right
insertOrder_Forward(pairs) == pairs

\* [...structure.pairs].reverse()
insertOrder(pairs) == [k \in 1..Len(pairs) |-> pairs[Len(pairs) + 1 - k]]

\* the loop over the pairs that inserts the web columns, from pair k on
RECURSIVE insertFrom(_, _, _)
insertFrom(sheet, order, k) ==
  IF k > Len(order) THEN sheet
  ELSE insertFrom(spliceColumns(sheet, getColumnIndex(order[k].original) + 1), order, k + 1)

insertColumns(sheet, pairs) == insertFrom(sheet, insertOrder(pairs), 1)

\* ws.mergeCells of a range of one row: the cells right of the first read
\* and write the value of the first
mergeCells(sheet, from, to, n) ==
  LET a  == getColumnIndex(from)
      b  == getColumnIndex(to)
      r0 == PadRow(IF n <= Len(sheet) THEN sheet[n] ELSE <<>>, b)
      rows_ == IF n > Len(sheet) THEN sheet \o [i \in 1..(n - Len(sheet)) |-> <<>>] ELSE sheet
  IN  [rows_ EXCEPT ![n] = [c \in 1..Len(r0) |-> IF c > a /\ c <= b THEN r0[a] ELSE r0[c]]]

\* hasValue of server.js
hasValue(v) ==
  /\ v.t # "null"
  /\ ~(v.t = "str" /\ v.s = <<>>)
  /\ Trim(JsString(v)) # <<>>

\* value || fallback
OrElse(v, fallback) == IF Truthy(v) THEN v ELSE fallback

\* String.prototype.replace(/\s+/g, ' '): every run of white space becomes
\* one blank
RECURSIVE CollapseSpaces(_)
CollapseSpaces(s) ==
  IF s = <<>> THEN <<>>
  ELSE IF IsSpace(Head(s))
    THEN <<" ">> \o CollapseSpaces(TrimLeft(s))
    ELSE <<Head(s)>> \o CollapseSpaces(Tail(s))

\* eqText of server.js
eqText(a, b) ==
  IF a.t = "null" \/ b.t = "null" THEN FALSE
  ELSE CollapseSpaces(ToLowerCase(Trim(JsString(a))))
       = CollapseSpaces(ToLowerCase(Trim(JsString(b))))

\* String.prototype.replace(/[^A-Z0-9]/g, '')
RECURSIVE KeepAlnum(_)
KeepAlnum(s) ==
  IF s = <<>> THEN <<>>
  ELSE IF IsDigit(Head(s)) \/ \E i \in 1..26 : UpperChars[i] = Head(s)
    THEN <<Head(s)>> \o KeepAlnum(Tail(s))
    ELSE KeepAlnum(Tail(s))

\* normPartNo of utils.js
normPartNo(partNo) ==
  IF ~Truthy(partNo) THEN <<>> ELSE KeepAlnum(ToUpperCase(Trim(JsString(partNo))))

\* normalizeNCode of utils.js
normalizeNCode(code) ==
  IF ~Truthy(code) THEN <<>> ELSE KeepAlnum(ToUpperCase(Trim(JsString(code))))

eqPart(a, b) == normPartNo(a) = normPartNo(b)

eqN(a, b) == normalizeNCode(a) = normalizeNCode(b)

\* the mapping of mapMaterialClassificationToExcel, in the order of its keys
materialMapping ==
  << <<<<"K", "u", "n", "s", "t", "s", "t", "o", "f", "f">>, <<"K">>>>,
     <<<<"M", "e", "t", "a", "l", "l">>, <<"M">>>>,
     <<<<"H", "o", "l", "z">>, <<"H">>>>,
     <<<<"G", "l", "a", "s">>, <<"G">>>>,
     <<<<"K", "e", "r", "a", "m", "i", "k">>, <<"C">>>>,
     <<<<"T", "e", "x", "t", "i", "l">>, <<"T">>>>,
     <<<<"P", "a", "p", "i", "e", "r">>, <<"P">>>> >>

\* mapMaterialClassificationToExcel of utils.js: the first key the text
\* includes decides, a text without key is handed back
mapMaterialClassificationToExcel(classification) ==
  IF ~Truthy(classification) THEN Null
  ELSE LET text == ToLowerCase(Trim(JsString(classification)))
           hits == {k \in 1..Len(materialMapping) : Includes(text, ToLowerCase(materialMapping[k][1]))}
       IN  IF hits = {} THEN classification
           ELSE Str(materialMapping[CHOOSE k \in hits : \A j \in hits : k <= j][2])

\* \w of a regular expression
IsWord(c) ==
  \/ IsDigit(c)
  \/ c = "_"
  \/ \E i \in 1..26 : UpperChars[i] = c \/ LowerChars[i] = c

\* \d+[,.]?\d* matched greedily at position i: the position behind the match,
\* 0 when no digit stands at i
NumEnd(s, i) ==
  LET n1  == DigitRun(s, i)
      sep == i + n1 <= Len(s) /\ s[i + n1] \in {",", "."}
      n2  == IF sep THEN DigitRun(s, i + n1 + 1) ELSE 0
  IN  IF n1 = 0 THEN 0 ELSE i + n1 + (IF sep THEN 1 ELSE 0) + n2

\* \s* matched greedily at position i: the position behind the white space
RECURSIVE SkipSpaces(_, _)
SkipSpaces(s, i) ==
  IF i <= Len(s) /\ IsSpace(s[i]) THEN SkipSpaces(s, i + 1) ELSE i

\* the multiplier of unitMap as a fraction; unitMap[unit] || 1
unitMultiplier(unit) ==
  CASE unit \in {<<"k", "g">>, <<"k", "i", "l", "o">>}   -> <<1, 1>>
    [] unit \in {<<"g">>, <<"g", "r", "a", "m", "m">>}   -> <<1, 1000>>
    [] unit \in {<<"l", "b">>, <<"p", "o", "u", "n", "d">>}  -> <<453592, 1000000>>
    [] unit \in {<<"o", "z">>, <<"o", "u", "n", "c", "e">>}  -> <<283495, 10000000>>
    [] unit \in {<<"t">>, <<"t", "o", "n", "n", "e">>}   -> <<1000, 1>>
    [] OTHER                         -> <<1, 1>>

\* value * multiplier, as a fraction in lowest powers of ten
fraction(nd) == Finite(nd[1], nd[2])

times(value, multiplier) ==
  fraction(Normalize(value.num * multiplier[1], value.den * multiplier[2]))

\* weightToKg of utils.js
weightToKg(value, unit) == times(value, unitMultiplier(ToLowerCase(unit)))

\* the groups of the weight patterns for a number and the text behind the
\* white space that follows it.  The three patterns are anchored at both
\* ends and share the number group: the unit is a run of word characters
\* (the unit lists of the first two patterns are such runs, and weightToKg
\* treats a unit alike whichever pattern has matched it); a text that is a
\* number only matches the third pattern when the number gives its last
\* digit to the unit group
weightGroups(number, rest) ==
  IF rest # <<>>
    THEN IF \A k \in 1..Len(rest) : IsWord(rest[k]) THEN <<number, rest>> ELSE <<>>
  ELSE IF Len(number) >= 2 /\ IsDigit(number[Len(number)])
    THEN <<SubSeq(number, 1, Len(number) - 1), <<number[Len(number)]>> >>
  ELSE <<>>

\* text.match(pattern) for the weight patterns: the two groups, <<>> without
\* match; e is the position behind the number at the start of the text
weightMatch(text, e) ==
  IF e = 0 THEN <<>>
  ELSE weightGroups(SubSeq(text, 1, e - 1), SubSeq(text, SkipSpaces(text, e), Len(text)))

\* the value of a parseWeight result, null is the record with null = TRUE
kgValue(kg) == [null |-> FALSE, num |-> kg.num, den |-> kg.den]

weightValue(groups) ==
  IF groups = <<>> THEN [null |-> TRUE, num |-> 0, den |-> 1]
  ELSE kgValue(weightToKg(ParseFloatStr(ReplaceComma(groups[1])), groups[2]))

\* parseWeight(weightText).value of utils.js
parseWeight(weightText) ==
  weightValue(weightMatch(Trim(weightText), NumEnd(Trim(weightText), 1)))

\* k numbers separated by \s*[xX×]\s*, matched at position i: the number
\* groups, <<>> when there is no match at i
RECURSIVE matchNumbers(_, _, _)
matchNumbers(s, i, k) ==
  LET e == NumEnd(s, i)
      j == SkipSpaces(s, e)
  IN  IF e = 0 THEN <<>>
      ELSE IF k = 1 THEN <<SubSeq(s, i, e - 1)>>
      ELSE IF j <= Len(s) /\ s[j] \in {"x", "X", "×"}
        THEN LET more == matchNumbers(s, SkipSpaces(s, j + 1), k - 1)
             IN  IF more = <<>> THEN <<>> ELSE <<SubSeq(s, i, e - 1)>> \o more
      ELSE <<>>

\* a number followed by \s* and the unit, matched at position i
matchUnit(s, i, unit) ==
  LET e == NumEnd(s, i)
  IN  IF e # 0 /\ StartsWith(SubSeq(s, SkipSpaces(s, e), Len(s)), unit)
        THEN <<SubSeq(s, i, e - 1)>>
        ELSE <<>>

\* the five patterns of parseDimensionsToLBH, matched at position i
matchAt(text, p, i) ==
  CASE p = 1 -> matchNumbers(text, i, 3)
    [] p = 2 -> matchNumbers(text, i, 2)
    [] p = 3 -> matchUnit(text, i, <<"m", "m">>)
    [] p = 4 -> matchUnit(text, i, <<"c", "m">>)
    [] OTHER -> matchUnit(text, i, <<"m">>)

\* the first entry of a sequence of match results that is a match
firstMatch(matches) ==
  LET hits == {i \in DOMAIN matches : matches[i] # <<>>}
  IN  IF hits = {} THEN <<>>
      ELSE matches[CHOOSE i \in hits : \A j \in hits : i <= j]

\* text.match(pattern) for the unanchored patterns: the groups of the
\* leftmost match, <<>> without match
dimensionMatch(text, p) == firstMatch([i \in 1..Len(text) |-> matchAt(text, p, i)])

\* parseFloat(v.replace(',', '.')) of a group, null for a group that is
\* not there
numberCell(n) == Num(n.num, n.den)

groupValue(groups, k) ==
  IF k <= Len(groups) THEN numberCell(ParseFloatStr(ReplaceComma(groups[k]))) ELSE Null

\* the object parseDimensionsToLBH returns for the groups of a match
LBH(groups) == [L |-> groupValue(groups, 1), B |-> groupValue(groups, 2), H |-> groupValue(groups, 3)]

\* parseDimensionsToLBH of utils.js: the first pattern that matches decides
parseDimensionsToLBH(dimText) ==
  LBH(firstMatch([p \in 1..5 |-> dimensionMatch(Trim(dimText), p)]))

\* a === b, or Math.abs(a - b) < 1e-9, for two numbers that are not null:
\* the numbers are decimal fractions, and for denominators whose product is
\* at most 10^9 a difference that is not zero is at least 1e-9
sameNumber(a, b) == a.num * b.den = b.num * a.den

\* the comparison of eqWeight and eqDimension behind the null checks
bothEqual(exNum, webNull, webNum) ==
  IF webNull \/ exNum.null THEN FALSE ELSE sameNumber(exNum, webNum)

\* eqWeight of server.js
eqWeight(exS, webVal) ==
  bothEqual(toNumber(exS), parseWeight(webVal).null, parseWeight(webVal))

\* eqDimension of server.js
eqDimension(exVal, webDimText, dimType) ==
  bothEqual(toNumber(exVal), parseDimensionsToLBH(webDimText)[dimType].t = "null",
            parseDimensionsToLBH(webDimText)[dimType])

\* web.field of a scraped object; a field the object does not have is
\* undefined.  'Weitere Artikelnummer' is the field WeitereArtikelnummer
Field(web, name) == IF name \in DOMAIN web THEN Str(web[name]) ELSE Null

\* web.field && web.field !== 'Nicht gefunden'
Present(f) == Truthy(f) /\ f # Str(<<"N", "i", "c", "h", "t", " ", "g", "e", "f", "u", "n", "d", "e", "n">>)

NoWebValue == [webValue |-> Null, isEqual |-> FALSE]

\* webValue and isEqual behind a branch that has assigned them when the
\* value it has extracted is not null
extracted(value, equal) ==
  IF value.t = "null" THEN NoWebValue ELSE [webValue |-> value, isEqual |-> equal]

\* the cases C and P of the switch: the text of the web object
textCase(dbValue, f) ==
  IF Present(f) THEN extracted(f, eqText(OrElse(dbValue, Str(<<>>)), f)) ELSE NoWebValue

\* the case E: the part number of the web object, else the A2V number
partCase(dbValue, webValue, a2v) ==
  [webValue |-> webValue, isEqual |-> eqPart(OrElse(dbValue, Str(a2v)), webValue)]

\* the case N: the code of the material class, when it is not empty
codeCase(dbValue, class, code) ==
  IF Present(class) /\ code # <<>>
    THEN extracted(Str(code), eqN(OrElse(dbValue, Str(<<>>)), Str(code)))
    ELSE NoWebValue

\* parseWeight(web.Gewicht).value as a cell value
weightCell(w) == IF w.null THEN Null ELSE Num(w.num, w.den)

\* the case S: the weight in kg
weightCase(dbValue, weight) ==
  IF Present(weight)
    THEN extracted(weightCell(parseWeight(weight.s)), eqWeight(dbValue, weight.s))
    ELSE NoWebValue

\* the cases U, V and W: one of the three dimensions
dimensionCase(dbValue, dim, dimType) ==
  IF Present(dim)
    THEN extracted(parseDimensionsToLBH(dim.s)[dimType], eqDimension(dbValue, dim.s, dimType))
    ELSE NoWebValue

\* the switch over pair.original of the comparison loop: the web value, null
\* when there is none, and whether it equals the DB value
compare(original, dbValue, web, a2v) ==
  CASE original = <<"C">> -> textCase(dbValue, Field(web, "Produkttitel"))
    [] original = <<"E">> ->
         partCase(dbValue,
                  IF Present(Field(web, "WeitereArtikelnummer"))
                    THEN Field(web, "WeitereArtikelnummer") ELSE Str(a2v),
                  a2v)
    [] original = <<"N">> ->
         codeCase(dbValue, Field(web, "Materialklassifizierung"),
                  normalizeNCode(mapMaterialClassificationToExcel(Field(web, "Materialklassifizierung"))))
    [] original = <<"P">> -> textCase(dbValue, Field(web, "Werkstoff"))
    [] original = <<"S">> -> weightCase(dbValue, Field(web, "Gewicht"))
    [] OTHER ->
         dimensionCase(dbValue, Field(web, "Abmessung"),
                       CASE original = <<"U">> -> "L"
                         [] original = <<"V">> -> "B"
                         [] OTHER              -> "H")

\* the argb values of fillColor
fillArgb ==
  [green |-> "FFD5F4E6", red |-> "FFFDEAEA", orange |-> "FFFFEAA7",
   dbBlue |-> "FFE6F3FF", webBlue |-> "FFCCE7FF"]

\* a colouring that marks every web value without equal DB value red
webColour_RedWithoutDb(hasDb, hasWeb, isEqual) ==
  IF hasWeb THEN (IF isEqual /\ hasDb THEN "green" ELSE "red")
  ELSE IF hasDb THEN "orange" ELSE "none"

\* the colour the comparison gives the web cell, "none" when it leaves the
\* cell without fill
webColour(hasDb, hasWeb, isEqual) ==
  IF hasWeb
    THEN IF hasDb THEN (IF isEqual THEN "green" ELSE "red") ELSE "orange"
    ELSE IF hasDb THEN "orange" ELSE "none"

\* fillColor(ws, addr, color) on the map of the fills of the sheet
fillColor(fills, letter, n, color) ==
  IF color = "none" THEN fills ELSE MapSet(fills, <<letter, n>>, fillArgb[color])

\* the content of an uploaded cell that is compared nowhere: a number that
\* names the position of the cell
Tag(n, c) == Num(100 * n + c, 1)

Widths == {26, 28}

\* the DB values of the eight pair columns of a data row
DbEven ==
  << Str(<<"s", "i", "e", "m", "e", "n", "s", " ", " ", "a", "2", "v", "2", " ", "-", " ", "a", "u", "t", "o", "m", "a", "t", "i", "s", "i", "e", "r", "u", "n", "g", "s", "k", "o", "m", "p", "o", "n", "e", "n", "t", "e">>), Str(<<"a", "2", "v", "-", "2">>), Str(<<"m">>),
     Str(<<"E", "d", "e", "l", "s", "t", "a", "h", "l", " ", "V", "2", "A">>), Str(<<"2", ",", "5">>), Num(120, 1), Str(<<"8", "0">>), Num(45, 1) >>

DbOdd ==
  << Str(<<"S", "i", "e", "m", "e", "n", "s", " ", "A", "2", "V", "1", " ", "-", " ", "S", "e", "n", "s", "o", "r", "i", "k", " ", "M", "o", "d", "u", "l">>), Null, Str(<<"K">>),
     Str(<<"P", "o", "l", "y", "c", "a", "r", "b", "o", "n", "a", "t", " ">>), Num(15, 100), Num(60, 1), Num(40, 1), Num(25, 1) >>

DbNone == << Null, Null, Str(<<" ", " ">>), Null, Str(<<>>), Null, Null, Null >>

DbOther ==
  << Str(<<"R", "e", "l", "a", "i", "s">>), Str(<<"X", "1">>), Str(<<"H">>), Num(0, 1),
     Str(<<"s", "c", "h", "w", "e", "r">>), Num(1, 1), Str(<<>>), Num(0, 1) >>

\* the data rows of the uploaded sheets: the cell of column Z and the DB
\* values; a short row ends at column W
RowTemplates ==
  { [z |-> Str(A2V1), db |-> DbOdd, short |-> FALSE],
    [z |-> Str(A2V1), db |-> DbOther, short |-> FALSE],
    [z |-> Str(A2V2), db |-> DbEven, short |-> FALSE],
    [z |-> Str(<<" ", "a", "2", "v", "2", " ">>), db |-> DbNone, short |-> FALSE],
    [z |-> Str(A2V2), db |-> DbOther, short |-> FALSE],
    [z |-> Str(<<"X", "Y", "Z">>), db |-> DbEven, short |-> FALSE],
    [z |-> Null, db |-> DbOther, short |-> FALSE],
    [z |-> Null, db |-> DbOdd, short |-> TRUE] }

pairIndex(c) == {k \in 1..Len(DB_WEB_PAIRS) : getColumnIndex(DB_WEB_PAIRS[k].original) = c}

sheetRow(n, w, t) ==
  [c \in 1..(IF t.short THEN 23 ELSE w) |->
     IF c = 26 THEN t.z
     ELSE IF pairIndex(c) # {} THEN t.db[CHOOSE k \in pairIndex(c) : TRUE]
     ELSE Tag(n, c)]

\* an uploaded sheet: three header rows, the data rows from row 4 on
sheetOf(w, ts) ==
  [n \in 1..(3 + Len(ts)) |->
     IF n <= 3 THEN [c \in 1..w |-> Tag(n, c)] ELSE sheetRow(n, w, ts[n - 3])]

SearchSheets ==
  {sheetOf(w, ts) : w \in Widths, ts \in UNION {[1..k -> RowTemplates] : k \in 0..MaxProdRows}}

\* the state after the file of a request has been loaded; the quality check
\* and the scraper are left out
SearchInit ==
  /\ file \in SearchSheets
  /\ webWs = file
  /\ tasks = <<>>
  /\ prodRows = <<>>
  /\ resultsMap = EmptyMap
  /\ structure = <<>>
  /\ step = "load"
  /\ cursor = <<0, 0>>
  /\ foundCount = 0
  /\ missingCount = 0
  /\ diffCount = 0
  /\ webFill = EmptyMap
  /\ headers = <<>>
  /\ row = <<>>
  /\ done = {}
  /\ rowRes = NoResult
  /\ srvRes = NoResult
  /\ NoRun
  /\ NoScrape

\* the rows from r on whose cell of column Z starts with A2V
RECURSIVE collectFrom(_, _)
collectFrom(sheet, r) ==
  IF r > Len(sheet) THEN <<>>
  ELSE IF StartsWith(A2vOf(CellAt(sheet, ORIGINAL_Z, r)), <<"A", "2", "V">>)
    THEN <<r>> \o collectFrom(sheet, r + 1)
    ELSE collectFrom(sheet, r + 1)

\* step 1 of the handler: the loop from FIRST_DATA_ROW - 1 to the last row;
\* getCell creates the cell of column Z in every row it reads
Collect ==
  /\ step = "load"
  /\ prodRows' = collectFrom(webWs, FIRST_DATA_ROW - 1)
  /\ tasks' = [i \in 1..Len(prodRows') |-> A2vOf(CellAt(webWs, ORIGINAL_Z, prodRows'[i]))]
  /\ webWs' = [n \in 1..Len(webWs) |->
                 IF n >= FIRST_DATA_ROW - 1 THEN PadRow(webWs[n], getColumnIndex(ORIGINAL_Z)) ELSE webWs[n]]
  /\ step' = "scrape"
  /\ UNCHANGED <<file, resultsMap, structure, cursor, foundCount, missingCount, diffCount, webFill>>
  /\ UNCHANGED <<checkVars, scrapeVars>>

\* step 2: await scraper.scrapeMany(tasks, SCRAPE_CONCURRENCY) has returned;
\* the map holds for every distinct task the mock data or an error object
Scraped ==
  /\ step = "scrape"
  /\ \E fulfilled \in SUBSET {tasks[i] : i \in 1..Len(tasks)} :
       resultsMap' = [a2v \in {tasks[i] : i \in 1..Len(tasks)} |->
                        settledValue(IF a2v \in fulfilled THEN "fulfilled" ELSE "rejected", a2v)]
  /\ step' = "restructure"
  /\ UNCHANGED <<file, webWs, tasks, prodRows, structure, cursor, foundCount, missingCount, diffCount, webFill>>
  /\ UNCHANGED <<checkVars, scrapeVars>>

\* step 4, first part: the new column structure, the web columns and the
\* label row
Restructure ==
  /\ step = "restructure"
  /\ structure' = calculateNewColumnStructure(webWs)
  /\ webWs' = spliceRows(insertColumns(webWs, structure'.pairs), LABEL_ROW)
  /\ step' = "decorate"
  /\ cursor' = <<0, 1>>
  /\ UNCHANGED <<file, tasks, prodRows, resultsMap, foundCount, missingCount, diffCount, webFill>>
  /\ UNCHANGED <<checkVars, scrapeVars>>

\* the values the loop over the pairs writes for one pair: rows 2 and 3 are
\* mirrored into the web column, the label row gets the two labels
mirrorPair(sheet, pair) ==
  LET s2 == SetCell(sheet, pair.webCol, 2, CellAt(sheet, pair.dbCol, 2))
      s3 == SetCell(s2, pair.webCol, 3, CellAt(s2, pair.dbCol, 3))
      s4 == SetCell(s3, pair.dbCol, LABEL_ROW, Str(<<"D", "B", "-", "W", "e", "r", "t">>))
  IN  SetCell(s4, pair.webCol, LABEL_ROW, Str(<<"W", "e", "b", "-", "W", "e", "r", "t">>))

\* applyLabelCellFormatting of the two label cells of a pair
labelFills(fills, pair) ==
  fillColor(fillColor(fills, pair.dbCol, LABEL_ROW, "dbBlue"), pair.webCol, LABEL_ROW, "webBlue")

\* step 4, second part: one pass of the loop over the pairs
Mirror ==
  /\ step = "decorate"
  /\ cursor[2] <= Len(structure.pairs)
  /\ webWs' = mirrorPair(webWs, structure.pairs[cursor[2]])
  /\ webFill' = labelFills(webFill, structure.pairs[cursor[2]])
  /\ cursor' = <<0, cursor[2] + 1>>
  /\ UNCHANGED <<file, tasks, prodRows, resultsMap, structure, step, foundCount, missingCount, diffCount>>
  /\ UNCHANGED <<checkVars, scrapeVars>>

\* applyTopHeader: the three texts of row 1; the cells of a merged range
\* show the value of its first cell
applyTopHeader(sheet) ==
  LET b1  == mergeCells(SetCell(sheet, <<"B">>, 1, Str(<<"D", "B", " ", "A", "G", " ", "S", "A", "P", " ", "R", "/", "3", " ", "K", " ", "M", "A", "R", "A", " ", "S", "t", "a", "m", "m", "d", "a", "t", "e", "n", " ", "S", "t", "a", "n", "d", " ", "2", "0", ".", "M", "a", "i", " ", "2", "0", "2", "5">>)),
                        <<"B">>, <<"A", "F">>, 1)
      ag1 == SetCell(b1, <<"A", "G">>, 1, Str(<<"S", "A", "P", " ", "K", "l", "a", "s", "s", "i", "f", "i", "z", "i", "e", "r", "u", "n", "g", " ", "a", "u", "s", " ", "O", "k", "t", "2", "4">>))
  IN  mergeCells(SetCell(ag1, <<"A", "H">>, 1, Str(<<"Z", "u", "s", "a", "t", "z", " ", "H", "e", "r", "s", "t", "e", "l", "l", "e", "r", "d", "a", "t", "e", "n", " ", "a", "u", "s", " ", "A", "b", "f", "r", "a", "g", "e", "n", " ", "i", "n", " ", "2", "0", "2", "4">>)),
                 <<"A", "H">>, <<"A", "J">>, 1)

\* step 4, third part: applyTopHeader(ws) behind the loop over the pairs
TopHeader ==
  /\ step = "decorate"
  /\ cursor[2] > Len(structure.pairs)
  /\ webWs' = applyTopHeader(webWs)
  /\ step' = "merge"
  /\ cursor' = <<0, 1>>
  /\ UNCHANGED <<file, tasks, prodRows, resultsMap, structure, foundCount, missingCount, diffCount, webFill>>
  /\ UNCHANGED <<checkVars, scrapeVars>>

\* one pass of the loop of mergePairHeaders: the header cells of the pair are
\* merged in rows 2 and 3
mergePairHeaders(sheet, pair) ==
  mergeCells(mergeCells(sheet, pair.dbCol, pair.webCol, 2), pair.dbCol, pair.webCol, 3)

\* step 4, fourth part: mergePairHeaders(ws, structure.pairs), pair by pair
MergeHeaders ==
  /\ step = "merge"
  /\ webWs' = mergePairHeaders(webWs, structure.pairs[cursor[2]])
  /\ IF cursor[2] < Len(structure.pairs)
       THEN cursor' = <<0, cursor[2] + 1>> /\ step' = "merge"
       ELSE cursor' = <<1, 1>> /\ step' = "compare"
  /\ UNCHANGED <<file, tasks, prodRows, resultsMap, structure, foundCount, missingCount, diffCount, webFill>>
  /\ UNCHANGED <<checkVars, scrapeVars>>

\* the row of the restructured sheet the comparison is at
currentRow == prodRows[cursor[1]] + 1

\* the letter of the A2V column in the restructured sheet
zCol ==
  IF ORIGINAL_Z \in DOMAIN structure.otherCols THEN structure.otherCols[ORIGINAL_Z] ELSE ORIGINAL_Z

\* the A2V number read again from the restructured sheet
currentA2v == A2vOf(CellAt(webWs, zCol, currentRow))

\* resultsMap.get(a2v) || {}
currentWeb == IF currentA2v \in DOMAIN resultsMap THEN resultsMap[currentA2v] ELSE <<>>

\* the end of one pass of the inner loop: the counters, the fill and the
\* value of the web cell
record(pair, n, hasDb, hasWeb, compared) ==
  /\ foundCount' = IF hasWeb THEN foundCount + 1 ELSE foundCount
  /\ missingCount' = IF hasWeb THEN missingCount ELSE missingCount + 1
  /\ diffCount' = IF hasWeb /\ hasDb /\ ~compared.isEqual THEN diffCount + 1 ELSE diffCount
  /\ webFill' = fillColor(webFill, pair.webCol, n, webColour(hasDb, hasWeb, compared.isEqual))
  /\ webWs' = IF hasWeb THEN SetCell(webWs, pair.webCol, n, compared.webValue) ELSE webWs

\* the pass for a pair whose DB value and web object have been read
compareCell(pair, n, dbValue, compared) ==
  record(pair, n, hasValue(dbValue), compared.webValue.t # "null", compared)

\* one pass of the inner loop of the comparison: one pair of one product row
CompareCell ==
  /\ step = "compare"
  /\ cursor[1] <= Len(prodRows)
  /\ compareCell(structure.pairs[cursor[2]], currentRow,
                 CellAt(webWs, structure.pairs[cursor[2]].dbCol, currentRow),
                 compare(structure.pairs[cursor[2]].original,
                         CellAt(webWs, structure.pairs[cursor[2]].dbCol, currentRow),
                         currentWeb, currentA2v))
  /\ cursor' = IF cursor[2] < Len(structure.pairs) THEN <<cursor[1], cursor[2] + 1>> ELSE <<cursor[1] + 1, 1>>
  /\ UNCHANGED <<file, tasks, prodRows, resultsMap, structure, step>>
  /\ UNCHANGED <<checkVars, scrapeVars>>

\* the loops are through: the workbook is written and the statistics are sent
Respond ==
  /\ step = "compare"
  /\ cursor[1] > Len(prodRows)
  /\ step' = "done"
  /\ UNCHANGED <<file, webWs, tasks, prodRows, resultsMap, structure, cursor, foundCount, missingCount, diffCount, webFill>>
  /\ UNCHANGED <<checkVars, scrapeVars>>

SearchNext ==
  \/ Collect
  \/ Scraped
  \/ Restructure
  \/ Mirror
  \/ TopHeader
  \/ MergeHeaders
  \/ CompareCell
  \/ Respond

SearchSpec == SearchInit /\ [][SearchNext]_vars

----------------------------------------------------------------------------
(* The claims.                                                             *)

classDone == "checkQuality" \in done

srvDone == "runQualityCheck" \in done

\* a value is present when it is a number, or a string with a character
\* other than white space
ValuePresent(v) == v.t = "num" \/ (v.t = "str" /\ Trim(v.s) # <<>>)

\* the field holds nothing: no value, or the empty string
FieldEmpty(v) == v.t = "null" \/ (v.t = "str" /\ v.s = <<>>)

\* the text of a field, an absent field having no text
FieldText(v) == IF v.t = "null" THEN <<>> ELSE JsString(v)

SlashPositions(s) == {i \in 1..Len(s) : s[i] = "/"}

\* position of the k-th "/" of s; 0 before the first and Len(s) + 1 after the last
SlashAt(s, k) ==
  IF k = 0 THEN 0
  ELSE IF k > Cardinality(SlashPositions(s)) THEN Len(s) + 1
  ELSE CHOOSE i \in SlashPositions(s) : Cardinality({j \in SlashPositions(s) : j < i}) = k - 1

SegmentCount(s) == Cardinality(SlashPositions(s)) + 1

\* the k-th "/"-delimited segment of s, trimmed
Segment(s, k) == Trim(SubSeq(s, SlashAt(s, k - 1) + 1, SlashAt(s, k) - 1))

AllowedSets == <<pos1Values, pos2Values, pos3Values, pos4Values, pos5Values>>

SegmentsAllowed(s) == \A k \in 1..5 : Segment(s, k) \in AllowedSets[k]

StructuredCodeValid(v) == SegmentCount(FieldText(v)) = 5 /\ SegmentsAllowed(FieldText(v))

\* two digits with one to three separator characters between them: the
\* shortest form of two 1-4 digit numbers separated by 1-3 separators
TextualMeasurement(txt) ==
  \E i \in 1..Len(txt), j \in 1..Len(txt) :
    /\ j - i - 1 \in 1..3
    /\ IsDigit(txt[i]) /\ IsDigit(txt[j])
    /\ \A p \in (i + 1)..(j - 1) : txt[p] \in {" ", "\t", "\n", "\r", "×", "x", "X", "*", "/"}

\* the columns and values QualityChecker resolves for the row
ClassFertCol == findColumnByHeader(headers, FertTerms)

ClassReadRaises ==
  \E c \in {findColumnByHeader(headers, LaengeTerms), findColumnByHeader(headers, BreiteTerms),
            findColumnByHeader(headers, HoeheTerms), findColumnByHeader(headers, MaterialTerms)} :
    ColumnCell(row, c).t = "throws"

ClassDims ==
  <<ParsedDim(row, findColumnByHeader(headers, LaengeTerms)),
    ParsedDim(row, findColumnByHeader(headers, BreiteTerms)),
    ParsedDim(row, findColumnByHeader(headers, HoeheTerms))>>

ClassText == TextOf(ColumnCell(row, findColumnByHeader(headers, MaterialTerms)))

\* the columns and values the inline runQualityCheck resolves for the row
SrvReadRaises ==
  \E c \in {colMap(headers, "laenge"), colMap(headers, "breite"), colMap(headers, "hoehe"),
            colMap(headers, "materialkurztext")} : ColumnCell(row, c).t = "throws"

SrvDims ==
  <<ParsedDim(row, colMap(headers, "laenge")), ParsedDim(row, colMap(headers, "breite")),
    ParsedDim(row, colMap(headers, "hoehe"))>>

SrvText == TextOf(ColumnCell(row, colMap(headers, "materialkurztext")))

AllZero(d) == \A k \in 1..3 : d[k].num = 0

AnyNegative(d) == \E k \in 1..3 : d[k].num < 0

AnyAbove10000(d) == \E k \in 1..3 : d[k].num > 10000 * d[k].den

MsgAllZero == "Alle Maße sind 0, aber kein Textmaß gefunden"

MsgNegative == "Negative Maßwerte gefunden"

MsgTooLarge == "Extrem große Maßwerte (über 10000)"

MsgParse == "Fehler beim Parsen der Maßwerte"

\* C1: the overall verdict of a row is valid exactly when the structured-code,
\* mandatory-field and measurement verdicts are all valid, and the row is
\* invalid exactly when at least one of the three reasons is non-null; for the
\* inline runQualityCheck, gesamtError is 0 exactly when all three flags are 0.
C1_OverallIsConjunction ==
  /\ classDone =>
       /\ rowRes.isValid <=> (/\ rowRes.fertPruefhinweis.valid
                              /\ rowRes.pflichtfelder.valid
                              /\ rowRes.masswerte.valid)
       /\ ~rowRes.isValid <=> (\/ ~rowRes.fertPruefhinweis.error.null
                               \/ ~rowRes.pflichtfelder.error.null
                               \/ ~rowRes.masswerte.error.null)
  /\ srvDone =>
       (srvRes.gesamtError = 0 <=> (/\ srvRes.fertPruefhinweisError = 0
                                    /\ srvRes.pflichtfelderError = 0
                                    /\ srvRes.massError = 0))

\* a row that fails the measurement rule only, evaluated by both implementations
C1_Witness ==
  /\ classDone /\ srvDone
  /\ rowRes.fertPruefhinweis.valid /\ rowRes.pflichtfelder.valid /\ ~rowRes.masswerte.valid
  /\ ~rowRes.isValid
  /\ srvRes.massError = 1 /\ srvRes.pflichtfelderError = 0 /\ srvRes.gesamtError = 1

\* C2: the mandatory-field rule is valid iff every required position (B-J, N,
\* R-W) of the row holds a non-empty, non-whitespace-only value, a position the
\* row does not reach counting as empty.  Stated for header rows that span the
\* columns up to W, where every required position is examined.
C2_MandatoryIffAllFilled ==
  Len(headers) > 22 =>
    /\ classDone =>
         (rowRes.pflichtfelder.valid <=>
            \A k \in 1..Len(relevantIndices) : ValuePresent(GetCell(row, relevantIndices[k] + 1)))
    /\ srvDone =>
         (srvRes.pflichtfelderError = 0 <=>
            \A k \in 1..Len(relevantIndices) : ValuePresent(GetCell(row, relevantIndices[k] + 1)))

\* C3: the structured-code rule is valid iff the field, split on "/" with each
\* segment trimmed, has exactly five segments and segment i is in the i-th
\* allowed set, compared exactly and case-sensitively: "OHNE/N/N/N/N" is valid
\* and "ohne/n/n/n/n" is not.
C3_StructuredCodeValidIff ==
  /\ (classDone /\ ClassFertCol # -1) =>
       LET v == GetCell(row, ClassFertCol + 1)
       IN  /\ rowRes.fertPruefhinweis.valid <=> StructuredCodeValid(v)
           /\ v = Str(<<"O", "H", "N", "E", "/", "N", "/", "N", "/", "N", "/", "N">>) => rowRes.fertPruefhinweis.valid
           /\ v = Str(<<"o", "h", "n", "e", "/", "n", "/", "n", "/", "n", "/", "n">>) => ~rowRes.fertPruefhinweis.valid
  /\ (srvDone /\ colMap(headers, "fertPruefhinweis") # -1) =>
       (srvRes.fertPruefhinweisError = 0 <=>
          StructuredCodeValid(GetCell(row, colMap(headers, "fertPruefhinweis") + 1)))

\* a code whose segments are padded with blanks is accepted by both implementations
C3_Witness ==
  /\ classDone /\ srvDone
  /\ headers = StdHeaders
  /\ GetCell(row, 14) = Str(<<" ", "3", " ", "/", " ", "2", ".", "1", " ", "/", "C", "L", "2", "/", " ", "J", " ", "/", "A", "+", " ">>)
  /\ rowRes.fertPruefhinweis.valid
  /\ srvRes.fertPruefhinweisError = 0

\* C4: the structured-code rule reports "missing value" for an empty or absent
\* field, "wrong segment count" for a non-empty field whose segment count is
\* not 5, and "invalid segment value(s)" for a field of 5 segments of which at
\* least one is outside its allowed set.
C4_ReasonPriority ==
  (classDone /\ ClassFertCol # -1) =>
    LET v == GetCell(row, ClassFertCol + 1)
        e == rowRes.fertPruefhinweis.error
    IN  /\ FieldEmpty(v) => (~e.null /\ e.msg = "Fehlender Wert")
        /\ (~FieldEmpty(v) /\ SegmentCount(FieldText(v)) # 5) =>
             (~e.null /\ e.msg = "Nicht genau 5 Teile")
        /\ (~FieldEmpty(v) /\ SegmentCount(FieldText(v)) = 5 /\ ~SegmentsAllowed(FieldText(v))) =>
             (~e.null /\ e.msg = "Ungültige Werte in einem oder mehreren Teilen")

\* C5: when the parsed length, width and height are all 0, the measurement
\* verdict is valid iff the material short text contains a textual
\* measurement, and otherwise fails with the all-zero reason.
C5_ZeroNeedsTextualMeasurement ==
  /\ (classDone /\ ~ClassReadRaises /\ (LET d == ClassDims IN AllZero(d))) =>
       /\ rowRes.masswerte.valid <=> TextualMeasurement(ClassText)
       /\ ~rowRes.masswerte.valid => rowRes.masswerte.error.msg = MsgAllZero
  /\ (srvDone /\ ~SrvReadRaises /\ (LET d == SrvDims IN AllZero(d))) =>
       (srvRes.massError = 0 <=> TextualMeasurement(SrvText))

\* all dimensions 0 and the text "12 X 34": valid for both implementations
C5_Witness ==
  /\ classDone /\ srvDone
  /\ headers = StdHeaders
  /\ (LET d == ClassDims IN AllZero(d))
  /\ (LET d == SrvDims IN AllZero(d))
  /\ GetCell(row, 3) = Str(<<"1", "2", " ", "X", " ", "3", "4">>)
  /\ rowRes.masswerte.valid
  /\ srvRes.massError = 0

\* C6: if any of the parsed length, width or height is negative, the
\* measurement verdict is invalid with the negative-dimension reason, whatever
\* the material short text and the other two dimensions are.
C6_NegativeAlwaysFails ==
  /\ (classDone /\ ~ClassReadRaises /\ (LET d == ClassDims IN AnyNegative(d))) =>
       (~rowRes.masswerte.valid /\ rowRes.masswerte.error.msg = MsgNegative)
  /\ (srvDone /\ ~SrvReadRaises /\ (LET d == SrvDims IN AnyNegative(d))) => srvRes.massError = 1

\* C7: a parsed dimension strictly greater than 10000, with no all-zero or
\* negative failure before it, makes the verdict invalid with the
\* exceeds-maximum reason; 10000 itself does not, and a row with both a
\* negative and a too-large dimension reports the negative reason.
C7_UpperBound ==
  (classDone /\ ~ClassReadRaises) =>
    LET d == ClassDims
    IN  /\ (AnyAbove10000(d) /\ ~AnyNegative(d)) =>
             (~rowRes.masswerte.valid /\ rowRes.masswerte.error.msg = MsgTooLarge)
        /\ ~AnyAbove10000(d) => rowRes.masswerte.error.msg # MsgTooLarge
        /\ (AnyAbove10000(d) /\ AnyNegative(d)) => rowRes.masswerte.error.msg = MsgNegative

\* a width of 10000.1 is reported as too large
C7_Witness ==
  /\ classDone
  /\ headers = StdHeaders
  /\ GetCell(row, 22) = Num(100001, 10)
  /\ ~rowRes.masswerte.valid
  /\ rowRes.masswerte.error.msg = MsgTooLarge

\* the weight column: the first header that contains "gewicht"
WeightCol == findColumnByHeader(headers, <<<<"g", "e", "w", "i", "c", "h", "t">>>>)

\* C8: when a weight column is present, a row whose parsed weight is <= 0 is
\* invalid with the non-positive-weight reason, whatever the dimension checks
\* find.
C8_NonPositiveWeightFails ==
  (classDone /\ WeightCol # -1 /\ ~ClassReadRaises
     /\ ~ParseFloat(GetCell(row, WeightCol + 1)).nan
     /\ ParseFloat(GetCell(row, WeightCol + 1)).num <= 0) =>
    ~rowRes.masswerte.valid

E2EGoodRow == MkRow(GoodFert, Karton, GoodDims, Num(5, 1), Filled, Null, SheetWidth)

E2EZeroRow == MkRow(GoodFert, Karton, ZeroDims, Num(5, 1), Filled, Null, SheetWidth)

\* C9: the row with B-J, N = "1/N/N/N/N" and R-W filled and length = width =
\* height = 10 is fully valid; with length = width = height = 0 and the
\* material text "Karton" it is invalid and the measurement rule is the only
\* rule that fails.
C9_EndToEnd ==
  (classDone /\ headers = StdHeaders) =>
    /\ row = E2EGoodRow => rowRes.isValid
    /\ row = E2EZeroRow =>
         /\ ~rowRes.isValid
         /\ rowRes.fertPruefhinweis.valid
         /\ rowRes.pflichtfelder.valid
         /\ ~rowRes.masswerte.valid

\* C10: for each of the three rule verdicts the reason is non-null iff valid
\* is false, also when reading the measurement cells raises.
C10_ReasonIffInvalid ==
  classDone =>
    /\ ~rowRes.fertPruefhinweis.error.null <=> ~rowRes.fertPruefhinweis.valid
    /\ ~rowRes.pflichtfelder.error.null <=> ~rowRes.pflichtfelder.valid
    /\ ~rowRes.masswerte.error.null <=> ~rowRes.masswerte.valid

\* the catch branch of checkMasswerte was taken
C10_Witness ==
  /\ classDone
  /\ ClassReadRaises
  /\ ~rowRes.masswerte.valid
  /\ rowRes.masswerte.error.msg = MsgParse

\* the number of the three rule verdicts of the row that are invalid
FailedRules(res) ==
  (IF res.fertPruefhinweis.valid THEN 0 ELSE 1)
  + (IF res.pflichtfelder.valid THEN 0 ELSE 1)
  + (IF res.masswerte.valid THEN 0 ELSE 1)

\* C11: no rule short-circuits another: the error list of a row holds the
\* reason of every rule that failed, in the order structured code, mandatory
\* fields, measurement, so a row failing k of the three rules carries exactly
\* k reasons.
C11_AllReasonsCollected ==
  classDone =>
    /\ Len(rowRes.errors) = FailedRules(rowRes)
    /\ rowRes.errors =
         (IF rowRes.fertPruefhinweis.valid THEN <<>> ELSE <<rowRes.fertPruefhinweis.error>>)
         \o (IF rowRes.pflichtfelder.valid THEN <<>> ELSE <<rowRes.pflichtfelder.error>>)
         \o (IF rowRes.masswerte.valid THEN <<>> ELSE <<rowRes.masswerte.error>>)
    /\ \A j \in 1..Len(rowRes.errors) : ~rowRes.errors[j].null

\* a row that fails all three rules carries three reasons
C11_Witness ==
  /\ classDone
  /\ ~rowRes.fertPruefhinweis.valid /\ ~rowRes.pflichtfelder.valid /\ ~rowRes.masswerte.valid
  /\ Len(rowRes.errors) = 3
  /\ rowRes.errors[3].msg = MsgAllZero

\* the text with every "," written as "."
DecimalPoint(s) == SubSeq([i \in 1..Len(s) |-> IF s[i] = "," THEN "." ELSE s[i]], 1, Len(s))

\* the dimension cell of the row under the first header matching the terms
DimCell(searchTerms) == ColumnCell(row, findColumnByHeader(headers, searchTerms))

HalfComma == Str(<<"0", ",", "5">>)

\* C14: the dimension fields accept "." and "," as decimal separator: a text
\* cell is parsed to the number its text has with "," written as ".", so a row
\* with the dimensions "0,5" / "0,5" / "0,5" is not treated as all-zero; the
\* same holds for toNumber.
C14_CommaDecimalSeparator ==
  (classDone /\ ~ClassReadRaises) =>
    /\ \A t \in {LaengeTerms, BreiteTerms, HoeheTerms} :
         DimCell(t).t = "str" =>
           /\ ParsedDim(row, findColumnByHeader(headers, t))
                = ParseFloatOrZero(Str(DecimalPoint(DimCell(t).s)))
           /\ toNumber(DimCell(t)) = toNumber(Str(DecimalPoint(DimCell(t).s)))
    /\ (DimCell(LaengeTerms) = HalfComma /\ DimCell(BreiteTerms) = HalfComma
          /\ DimCell(HoeheTerms) = HalfComma) =>
         /\ rowRes.masswerte.details.l = Finite(5, 10)
         /\ rowRes.masswerte.error.msg # MsgAllZero

Alphabet == <<"A", "B", "C", "D", "E", "F", "G", "H", "I", "J", "K", "L", "M", "N", "O", "P", "Q", "R", "S", "T", "U", "V", "W", "X", "Y", "Z">>

\* the spreadsheet label of the column with the 1-based number col (A..Z)
ColumnLabel(col) == <<Alphabet[col]>>

\* the header text of a position, "Unbekannt" when the header row has none
HeaderText(hs, index) ==
  IF FieldEmpty(HeaderAt(hs, index)) THEN <<"U", "n", "b", "e", "k", "a", "n", "n", "t">>
  ELSE JsString(HeaderAt(hs, index))

\* the required positions (0-based, in order) at which the row has no value
RECURSIVE MissingPositions(_, _)
MissingPositions(r, k) ==
  IF k = 0 THEN <<>>
  ELSE IF ValuePresent(GetCell(r, relevantIndices[k] + 1))
    THEN MissingPositions(r, k - 1)
  ELSE Append(MissingPositions(r, k - 1), relevantIndices[k])

\* C16: on failure the mandatory-field reason lists every missing required
\* position of the row, each with its column label and the header text of the
\* position, or "Unbekannt" when the header row has no text there, and
\* missingCount is the number of listed positions.  Stated for header rows
\* that span the columns up to W.
C16_ReasonListsEveryMissing ==
  (classDone /\ Len(headers) > 22 /\ ~rowRes.pflichtfelder.valid) =>
    LET fields  == rowRes.pflichtfelder.error.fields
        missing == MissingPositions(row, Len(relevantIndices))
    IN  /\ Len(fields) = Len(missing)
        /\ rowRes.pflichtfelder.missingCount = Len(fields)
        /\ \A j \in 1..Len(fields) :
             /\ j <= Len(missing)
             /\ fields[j].letter = ColumnLabel(missing[j] + 1)
             /\ fields[j].header = HeaderText(headers, missing[j])

\* C17: from a row with all required positions filled, clearing the value at
\* one required position makes the mandatory-field verdict invalid, and the
\* reason names that position by its own spreadsheet column label (index 1 is
\* B, index 13 is N, index 22 is W).  Stated for header rows that span the
\* columns up to W.
C17_ClearedPositionIsNamed ==
  (classDone /\ Len(headers) > 22) =>
    \A k \in 1..Len(relevantIndices) :
      (\E v \in EmptyValues : row = ClearCells(FullRow, {relevantIndices[k] + 1}, v)) =>
        /\ ~rowRes.pflichtfelder.valid
        /\ Len(rowRes.pflichtfelder.error.fields) = 1
        /\ rowRes.pflichtfelder.error.fields[1].letter = ColumnLabel(relevantIndices[k] + 1)

classRun == impl = "QualityChecker"

srvRun == impl = "runQualityCheck"

running == pc \in {"loop", "done"}

\* the row of the uploaded sheet a results entry belongs to
RowOf(e) == IF classRun THEN e.rowNum ELSE e.row

\* the overall verdict of a results entry is valid
EntryValid(e) == IF classRun THEN e.isValid ELSE e.gesamtError = 0

\* the uploaded row holds at least one value
IsDataRow(n) == \E c \in 1..Len(inputBuffer[n]) : inputBuffer[n][c] # Null

\* the data rows of the uploaded sheet in front of row n
DataRowsBefore(n) == {m \in firstDataRow..(n - 1) : m <= Len(inputBuffer) /\ IsDataRow(m)}

\* the number of results entries that satisfy the test
Count(test(_)) == Cardinality({i \in 1..Len(results) : test(results[i])})

\* C12: after any sequence of processed rows valid + invalid = total, and in
\* the summary each per-rule failure count is the number of rows whose
\* verdict for that rule is invalid, at most total; the per-rule counts are
\* independent of each other.
C12_StatisticsAddUp ==
  /\ (running /\ classRun) =>
       /\ validRows + errorRows = totalRows
       /\ totalRows = Cardinality(DataRowsBefore(rowNum))
       /\ validRows = Count(LAMBDA e : e.isValid)
  /\ (running /\ srvRun) =>
       /\ totalRows = Cardinality(DataRowsBefore(rowNum))
       /\ validRows = Count(LAMBDA e : e.gesamtError = 0)
  /\ pc = "done" =>
       /\ stats.valid + stats.invalid = stats.total
       /\ stats.total = Cardinality(DataRowsBefore(Len(inputBuffer) + 1))
       /\ stats.valid = Count(EntryValid)
  /\ (pc = "done" /\ classRun) =>
       /\ summaryData[7][2] = Count(LAMBDA e : ~e.fertPruefhinweis.valid)
       /\ summaryData[8][2] = Count(LAMBDA e : ~e.pflichtfelder.valid)
       /\ summaryData[9][2] = Count(LAMBDA e : ~e.masswerte.valid)
       /\ \A i \in {7, 8, 9} : summaryData[i][2] <= stats.total
  /\ (pc = "done" /\ srvRun) =>
       /\ summaryData[3][2] = Count(LAMBDA e : e.pflichtfelderError = 1)
       /\ summaryData[4][2] = Count(LAMBDA e : e.fertPruefhinweisError = 1)
       /\ summaryData[5][2] = Count(LAMBDA e : e.massError = 1)
       /\ \A i \in {3, 4, 5} : summaryData[i][2] <= stats.total

\* three rows, two of them invalid, one of which fails all three rules and is
\* counted for each rule
C12_Witness ==
  /\ pc = "done" /\ classRun
  /\ stats = [total |-> 3, valid |-> 1, invalid |-> 2]
  /\ summaryData[7][2] + summaryData[8][2] + summaryData[9][2] > stats.invalid
  /\ \E i \in 1..Len(results) : Len(results[i].errors) = 3

\* the rows of the summary that carry a computed percentage
PercentRows == IF classRun THEN {3, 4, 7, 8, 9} ELSE {2, 3, 4, 5}

\* what a division by zero prints
DivisionByZeroTexts == {<<"N", "a", "N", "%">>, <<"I", "n", "f", "i", "n", "i", "t", "y", "%">>}

\* C13: with zero data rows the summary is produced and no reported
\* percentage is the result of dividing by zero.
C13_NoDivisionByZero ==
  (pc = "done" /\ totalRows = 0) =>
    \A i \in PercentRows : summaryData[i][3] \notin DivisionByZeroTexts

\* the text does not begin with a number
NoNumber(s) ==
  LET t == TrimLeft(s)
      u == IF t # <<>> /\ t[1] \in {"+", "-"} THEN Tail(t) ELSE t
  IN  ~(\/ (u # <<>> /\ IsDigit(u[1]))
        \/ (Len(u) >= 2 /\ u[1] = "." /\ IsDigit(u[2])))

\* a dimension cell that is absent or cannot be parsed as a number
Unparseable(v) == v.t = "null" \/ (v.t = "str" /\ NoNumber(v.s))

\* the cell of the uploaded row n under the header named by the terms
UploadedCell(n, searchTerms) ==
  ColumnCell(inputBuffer[n], findColumnByHeader(headers, searchTerms))

\* C15: no row aborts the run: every data row in front of the loop position
\* has its entry in results, in source order, with the three verdicts as data;
\* an unparseable or absent dimension is taken as 0 and takes part in the
\* all-zero check; when the run is done every data row has been processed.
C15_NoRowAbortsTheRun ==
  /\ running =>
       /\ Len(results) = Cardinality(DataRowsBefore(rowNum))
       /\ {RowOf(results[i]) : i \in 1..Len(results)} = DataRowsBefore(rowNum)
       /\ \A i \in 1..Len(results), j \in 1..Len(results) :
            i < j => RowOf(results[i]) < RowOf(results[j])
  /\ (running /\ classRun) =>
       \A i \in 1..Len(results) :
         LET e == results[i]
             l == UploadedCell(e.rowNum, LaengeTerms)
             b == UploadedCell(e.rowNum, BreiteTerms)
             h == UploadedCell(e.rowNum, HoeheTerms)
         IN  /\ e.fertPruefhinweis.valid \in BOOLEAN
             /\ e.pflichtfelder.valid \in BOOLEAN
             /\ e.masswerte.valid \in BOOLEAN
             /\ Unparseable(l) => e.masswerte.details.l = Finite(0, 1)
             /\ Unparseable(b) => e.masswerte.details.b = Finite(0, 1)
             /\ Unparseable(h) => e.masswerte.details.h = Finite(0, 1)
             /\ (Unparseable(l) /\ Unparseable(b) /\ Unparseable(h)) =>
                  (e.masswerte.valid <=>
                     TextualMeasurement(TextOf(UploadedCell(e.rowNum, MaterialTerms))))
  /\ pc = "done" => Len(results) = Cardinality(DataRowsBefore(Len(inputBuffer) + 1))

\* a row with the dimensions "abc" fails the all-zero check, and the short
\* row and the valid row behind it are processed
C15_Witness ==
  /\ pc = "done" /\ classRun
  /\ Len(results) = 3
  /\ inputBuffer[4] = MassRow /\ inputBuffer[5] = ShortRow /\ inputBuffer[6] = ValidRow
  /\ results[1].masswerte.error.msg = MsgAllZero
  /\ results[1].masswerte.details.l = Finite(0, 1)
  /\ ~results[2].isValid
  /\ results[3].isValid

\* C18: the quality check does not mutate its input: every row of the loaded
\* worksheet keeps its cell values and its number of columns.
C18_InputNotMutated ==
  running =>
    \A n \in 1..Len(inputBuffer) :
      /\ Len(ws[n]) = Len(inputBuffer[n])
      /\ ws[n] = inputBuffer[n]

\* the three rule verdicts and the overall verdict of a results entry
Verdicts(e) ==
  IF classRun THEN <<e.fertPruefhinweis, e.pflichtfelder, e.masswerte, e.isValid>>
  ELSE <<e.fertPruefhinweisError, e.pflichtfelderError, e.massError, e.gesamtError>>

ValidRowNums == {RowOf(results[i]) : i \in {k \in 1..Len(results) : EntryValid(results[k])}}

Red == "FFFFCCCC"

Green == "FFD5F4E6"

\* C21: row colouring follows the three-colour code: a row with a missing
\* mandatory field is red, a row with all mandatory fields present but an
\* invalid structured code or measurement is orange (neither red nor green),
\* and a row is green only when it is complete and correct.
C21_ThreeColourCode ==
  (running /\ classRun) =>
    \A i \in 1..Len(results) :
      LET e    == results[i]
          fill == rowFill[e.rowNum].argb
      IN  /\ ~e.pflichtfelder.valid => fill = Red
          /\ (e.pflichtfelder.valid /\ ~(e.fertPruefhinweis.valid /\ e.masswerte.valid)) =>
               fill \notin {Red, Green}
          /\ fill = Green <=> e.isValid

\* one step of the row loop handles the row rowNum and nothing else
OneRowPerStep ==
  (pc = "loop" /\ pc' = "loop") =>
    /\ rowNum' = rowNum + 1
    /\ Len(results') = Len(results) + (IF IsDataRow(rowNum) THEN 1 ELSE 0)
    /\ SubSeq(results', 1, Len(results)) = results
    /\ IsDataRow(rowNum) => RowOf(results'[Len(results')]) = rowNum

\* the summary and the stats are written by the step that leaves the loop
\* behind the last row, and by no other
ReportAfterLastRow ==
  (summaryData' # summaryData \/ stats' # stats) =>
    /\ pc = "loop" /\ pc' = "done"
    /\ rowNum > Len(inputBuffer)
    /\ results' = results

\* C22: rows are processed one at a time in ascending source order from row
\* 4 on: each data row with values produces exactly one results entry, so that
\* the length of results is totalRows at every step, a row without values
\* produces none, and the summary and stats are computed only after the last
\* row has been processed.
C22_SequentialProcessing ==
  /\ [](running =>
          /\ rowNum >= 4
          /\ Len(results) = totalRows
          /\ \A i \in 1..Len(results) :
               /\ RowOf(results[i]) \in 4..(rowNum - 1)
               /\ IsDataRow(RowOf(results[i]))
               /\ \A j \in 1..Len(results) : i < j => RowOf(results[i]) < RowOf(results[j])
          /\ \A n \in 4..(rowNum - 1) :
               (n <= Len(inputBuffer) /\ IsDataRow(n)) =>
                 \E i \in 1..Len(results) : RowOf(results[i]) = n
          /\ pc = "loop" => (summaryData = <<>> /\ stats = NoResult)
          /\ pc = "done" => (rowNum = Len(inputBuffer) + 1 /\ stats # NoResult))
  /\ [][OneRowPerStep /\ ReportAfterLastRow]_vars

\* a run over three rows, the second without values: two entries, for the
\* rows 4 and 6, and the summary at the end
C22_Witness ==
  /\ pc = "done"
  /\ Len(inputBuffer) = 6 /\ inputBuffer[5] = BlankRow
  /\ Len(results) = 2 /\ totalRows = 2
  /\ RowOf(results[1]) = 4 /\ RowOf(results[2]) = 6
  /\ summaryData # <<>>

\* no header of the uploaded sheet names the structured-code field
NoFertHeader ==
  \A c \in 1..Len(inputBuffer[headerRow]) :
    LET h == inputBuffer[headerRow][c]
    IN  h.t = "str" => \A k \in 1..Len(FertTerms) : ~Includes(ToLowerCase(h.s), FertTerms[k])

\* C23: when no header matches the structured-code field, the structured-code
\* verdict of every row is valid without a reason, the overall verdict of a
\* row is decided by the two other rules alone, and the per-rule count of the
\* summary is 0.
C23_AbsentFieldIsValid ==
  /\ (running /\ NoFertHeader /\ classRun) =>
       \A i \in 1..Len(results) :
         /\ results[i].fertPruefhinweis = [valid |-> TRUE, error |-> NoError]
         /\ results[i].isValid <=>
              (results[i].pflichtfelder.valid /\ results[i].masswerte.valid)
         /\ Len(results[i].errors) =
              (IF results[i].pflichtfelder.valid THEN 0 ELSE 1)
              + (IF results[i].masswerte.valid THEN 0 ELSE 1)
  /\ (running /\ NoFertHeader /\ srvRun) =>
       \A i \in 1..Len(results) :
         /\ results[i].fertPruefhinweisError = 0
         /\ results[i].gesamtError = 0 <=>
              (results[i].pflichtfelderError = 0 /\ results[i].massError = 0)
  /\ (pc = "done" /\ NoFertHeader /\ classRun) => summaryData[7][2] = 0
  /\ (pc = "done" /\ NoFertHeader /\ srvRun) => summaryData[4][2] = 0

\* a sheet without structured-code header whose rows hold an invalid code in
\* column N and a short row: the code is not judged, the short row fails on
\* the other rules only
C23_Witness ==
  /\ pc = "done" /\ classRun /\ NoFertHeader
  /\ Len(results) = 3
  /\ inputBuffer[4] = FertRow /\ inputBuffer[5] = ShortRow /\ inputBuffer[6] = FertRow
  /\ results[1].isValid /\ ~results[2].isValid /\ results[3].isValid
  /\ results[2].fertPruefhinweis.valid
  /\ stats.valid = 2

\* the required positions (0-based) the header array reaches
ExaminedPositions == {relevantIndices[k] : k \in {j \in 1..Len(relevantIndices) : relevantIndices[j] < Len(headers)}}

\* the required positions (0-based) behind the end of the header array
SkippedPositions == {relevantIndices[k] : k \in {j \in 1..Len(relevantIndices) : relevantIndices[j] >= Len(headers)}}

\* the cell holds text other than white space, or a number other than 0
CellFilled(v) == (v.t = "num" /\ v.num # 0) \/ (v.t = "str" /\ Trim(v.s) # <<>>)

SameColumns ==
  /\ findColumnByHeader(headers, FertTerms) = colMap(headers, "fertPruefhinweis")
  /\ findColumnByHeader(headers, LaengeTerms) = colMap(headers, "laenge")
  /\ findColumnByHeader(headers, BreiteTerms) = colMap(headers, "breite")
  /\ findColumnByHeader(headers, HoeheTerms) = colMap(headers, "hoehe")
  /\ findColumnByHeader(headers, MaterialTerms) = colMap(headers, "materialkurztext")

\* C25: when both implementations resolve the same columns, every row
\* QualityChecker classifies as valid is error-free (gesamtError = 0) for the
\* inline runQualityCheck, and the structured-code and mandatory-field flags
\* of the two agree on every row.
C25_InlineRefinesChecker ==
  (classDone /\ srvDone /\ SameColumns) =>
    /\ rowRes.isValid => srvRes.gesamtError = 0
    /\ rowRes.masswerte.valid => srvRes.massError = 0
    /\ rowRes.fertPruefhinweis.valid <=> srvRes.fertPruefhinweisError = 0
    /\ rowRes.pflichtfelder.valid <=> srvRes.pflichtfelderError = 0

\* a row with the dimensions 0 and a textual measurement: valid for
\* QualityChecker and error-free for runQualityCheck
C25_Witness ==
  /\ classDone /\ srvDone /\ SameColumns
  /\ headers = StdHeaders
  /\ (LET d == ClassDims IN AllZero(d))
  /\ rowRes.isValid
  /\ srvRes.gesamtError = 0

\* the concatenation of the chunks
RECURSIVE Flatten(_)
Flatten(ss) == IF ss = <<>> THEN <<>> ELSE Head(ss) \o Flatten(Tail(ss))

\* the scrapeOne calls of the request that are in flight
InFlight(r) == {i \in 1..Len(calls[r].promises) : calls[r].promises[i] = "pending"}

\* the request has cut its input into chunks
Chunked(r) == calls[r].pc \in {"chunk", "sleep"} \/ (calls[r].pc = "returned" /\ calls[r].chunk > 0)

\* a step starts scrapeOne calls only when no call of the request is in flight
StartsOnlyWhenSettled ==
  \A r \in Requests :
    Len(calls'[r].started) > Len(calls[r].started) =>
      /\ InFlight(r) = {}
      /\ Len(calls[r].settled) = Len(calls[r].started)
      /\ calls'[r].chunk = calls[r].chunk + 1
      /\ calls'[r].started = calls[r].started \o calls'[r].chunks[calls'[r].chunk]

\* C26: scrapeMany processes its input in consecutive chunks of at most
\* concurrency items that partition the input in order: at any moment at most
\* concurrency scrapeOne calls of the call are in flight, and no scrapeOne of
\* the next chunk starts before every scrapeOne of the current chunk has
\* settled.
C26_ChunkedConcurrency ==
  /\ [](\A r \in Requests :
          /\ Cardinality(InFlight(r)) <= calls[r].concurrency
          /\ Len(calls[r].started) - Len(calls[r].settled) <= calls[r].concurrency
          /\ calls[r].started = SubSeq(calls[r].a2vNumbers, 1, Len(calls[r].started))
          /\ Chunked(r) =>
               /\ Flatten(calls[r].chunks) = calls[r].a2vNumbers
               /\ \A k \in 1..Len(calls[r].chunks) :
                    /\ Len(calls[r].chunks[k]) \in 1..calls[r].concurrency
                    /\ k < Len(calls[r].chunks) =>
                         Len(calls[r].chunks[k]) = calls[r].concurrency
               /\ calls[r].started = Flatten(SubSeq(calls[r].chunks, 1, calls[r].chunk)))
  /\ [][StartsOnlyWhenSettled]_vars

\* three numbers with concurrency 2: the two calls of the first chunk have
\* settled and the one call of the second chunk is in flight
C26_Witness ==
  \E r \in Requests :
    /\ calls[r].pc = "chunk"
    /\ calls[r].concurrency = 2
    /\ Len(calls[r].a2vNumbers) = 3
    /\ calls[r].chunk = 2
    /\ Len(calls[r].settled) = 2
    /\ calls[r].promises = <<"pending">>

\* the index of the last occurrence of the number in the input of the request
LastIndex(r, a2v) ==
  CHOOSE i \in 1..Len(calls[r].a2vNumbers) :
    /\ calls[r].a2vNumbers[i] = a2v
    /\ \A j \in (i + 1)..Len(calls[r].a2vNumbers) : calls[r].a2vNumbers[j] # a2v

\* what scrapeMany has returned is complete: one entry for every distinct
\* input number, holding the scraped value or the error of its last call
ReturnedMapComplete(r) ==
  /\ DOMAIN calls[r].results = {calls[r].a2vNumbers[i] : i \in 1..Len(calls[r].a2vNumbers)}
  /\ Len(calls[r].settled) = Len(calls[r].a2vNumbers)
  /\ calls[r].started = calls[r].a2vNumbers
  /\ \A a2v \in DOMAIN calls[r].results :
       IF calls[r].settled[LastIndex(r, a2v)] = "fulfilled"
         THEN calls[r].results[a2v] = generateMockData(a2v)
         ELSE calls[r].results[a2v] = [error |-> Reason.message]
  /\ calls[r].a2vNumbers = <<>> =>
       (calls[r].results = EmptyMap /\ calls[r].launch = 0 /\ calls[r].chunk = 0)

C28_SingleBrowserLaunch ==
  /\ launched <= 1
  /\ \A r \in Requests, q \in Requests :
       (r # q /\ calls[r].pc = "launch") => calls[q].pc # "launch"
  /\ closer = "exited" => (browser = 0 /\ page = 0)

\* the letters the computed structure gives the DB columns, the web columns
\* and the other columns
TargetLetters ==
  {structure.pairs[k].dbCol : k \in 1..Len(structure.pairs)}
  \cup {structure.pairs[k].webCol : k \in 1..Len(structure.pairs)}
  \cup {structure.otherCols[l] : l \in DOMAIN structure.otherCols}

\* the letter the structure computes for the column with the original letter
NewLetter(originalLetter) ==
  IF \E k \in 1..Len(structure.pairs) : structure.pairs[k].original = originalLetter
    THEN structure.pairs[CHOOSE k \in 1..Len(structure.pairs) : structure.pairs[k].original = originalLetter].dbCol
    ELSE structure.otherCols[originalLetter]

\* the row an uploaded row stands in behind the inserted label row
NewRow(n) == IF n >= LABEL_ROW THEN n + 1 ELSE n

\* the cells of these uploaded rows stand at the computed letters
ContentAtNewLetter(rows_) ==
  \A n \in rows_ :
    \A c \in 1..Len(file[n]) :
      CellAt(webWs, NewLetter(getColumnLetter(c)), NewRow(n)) = file[n][c]

\* C29: the column layout computed by calculateNewColumnStructure matches
\* the right-to-left column insertions: the web column of each of the 8 pairs
\* is directly right of its DB column, all target letters are pairwise
\* distinct, the content of every uploaded column stands at its computed
\* letter (row 1 until applyTopHeader writes the top header over it), and
\* the A2V number read from the shifted Z column and row + 1 is the one
\* collected before the restructuring.
C29_LayoutMatchesInsertions ==
  step \in {"decorate", "merge", "compare", "done"} =>
    /\ Len(structure.pairs) = 8
    /\ \A k \in 1..Len(structure.pairs) :
         getColumnIndex(structure.pairs[k].webCol) = getColumnIndex(structure.pairs[k].dbCol) + 1
    /\ Cardinality(TargetLetters) = 16 + Cardinality(DOMAIN structure.otherCols)
    /\ ContentAtNewLetter(2..Len(file))
    /\ step = "decorate" => ContentAtNewLetter({1})
    /\ \A i \in 1..Len(prodRows) :
         A2vOf(CellAt(webWs, zCol, prodRows[i] + 1)) = tasks[i]

\* a sheet of 28 columns with two product rows of different A2V numbers has
\* been compared: column Z stands at AH, column AB at AJ, and the second
\* number is read from row 6
C29_Witness ==
  /\ step = "done"
  /\ columnCount(file) = 28
  /\ Len(tasks) = 2
  /\ tasks[1] # tasks[2]
  /\ zCol = <<"A", "H">>
  /\ structure.otherCols[<<"A", "B">>] = <<"A", "J">>
  /\ prodRows = <<4, 5>>
  /\ A2vOf(CellAt(webWs, <<"A", "H">>, 6)) = tasks[2]
  /\ CellAt(webWs, <<"A", "J">>, 6) = Tag(5, 28)

\* the comparison has been through pair p of product row i
Visited(i, p) ==
  \/ step = "done"
  \/ step = "compare" /\ (i < cursor[1] \/ (i = cursor[1] /\ p < cursor[2]))

VisitedCells == {ip \in (1..Len(prodRows)) \X (1..8) : Visited(ip[1], ip[2])}

\* the fill of a cell of the restructured sheet
FillAt(letter, n) ==
  IF <<letter, n>> \in DOMAIN webFill THEN webFill[<<letter, n>>] ELSE "none"

\* the fill of the web cell of pair p of product row i
WebFillOf(i, p) == FillAt(structure.pairs[p].webCol, prodRows[i] + 1)

\* the web cell of pair p of product row i holds a web value
WebExists(i, p) == CellAt(webWs, structure.pairs[p].webCol, prodRows[i] + 1).t # "null"

\* the uploaded DB value of pair p of product row i
DbOf(i, p) == CellAt(file, DB_WEB_PAIRS[p].original, prodRows[i])

\* the uploaded DB value and the scraped web value compare equal
ComparesEqual(i, p) ==
  compare(DB_WEB_PAIRS[p].original, DbOf(i, p), resultsMap[tasks[i]], tasks[i]).isEqual

\* the colour of a visited web cell follows the existence and equality of
\* the two values
ColourCode(i, p) ==
  /\ WebFillOf(i, p) = fillArgb.green <=> (WebExists(i, p) /\ hasValue(DbOf(i, p)) /\ ComparesEqual(i, p))
  /\ WebFillOf(i, p) = fillArgb.red <=> (WebExists(i, p) /\ hasValue(DbOf(i, p)) /\ ~ComparesEqual(i, p))
  /\ WebFillOf(i, p) = fillArgb.orange <=> (WebExists(i, p) # hasValue(DbOf(i, p)))
  /\ WebFillOf(i, p) \in {fillArgb.green, fillArgb.red, fillArgb.orange, "none"}

\* what the counters hold while and after the comparison
CountersAddUp ==
  /\ foundCount = Cardinality({ip \in VisitedCells : WebExists(ip[1], ip[2])})
  /\ missingCount = Cardinality({ip \in VisitedCells : ~WebExists(ip[1], ip[2])})
  /\ foundCount + missingCount = Cardinality(VisitedCells)
  /\ step = "done" => foundCount + missingCount = 8 * Len(tasks)
  /\ diffCount <= foundCount
  /\ diffCount = Cardinality({ip \in VisitedCells : WebFillOf(ip[1], ip[2]) = fillArgb.red})

\* a pass of the comparison increments exactly one of found and missing, and
\* differences only together with found; no other step counts
OnePerPass ==
  IF step = "compare" /\ cursor' # cursor
    THEN /\ \/ foundCount' = foundCount + 1 /\ missingCount' = missingCount
            \/ foundCount' = foundCount /\ missingCount' = missingCount + 1
         /\ \/ diffCount' = diffCount
            \/ diffCount' = diffCount + 1 /\ foundCount' = foundCount + 1
    ELSE UNCHANGED <<foundCount, missingCount, diffCount>>

\* C30: in the web-search comparison every (row, pair) increments exactly one
\* of found and missing, so found + missing = 8 x the number of collected
\* A2V rows and differences <= found; a web cell is green iff a web value
\* and a DB value both exist and compare equal, red iff both exist and
\* differ, which is the only case that increments differences, and orange
\* iff exactly one of the two exists.
C30_CountersAndColours ==
  /\ [](step \in {"compare", "done"} =>
          /\ CountersAddUp
          /\ \A ip \in VisitedCells : ColourCode(ip[1], ip[2]))
  /\ [][OnePerPass]_vars

\* two product rows have been compared: one scrape failed, and the sheet
\* holds green, red and orange web cells and web cells without fill
C30_Witness ==
  /\ step = "done"
  /\ Len(tasks) = 2
  /\ foundCount + missingCount = 16
  /\ diffCount > 0
  /\ missingCount > 0
  /\ \E a2v \in DOMAIN resultsMap : "error" \in DOMAIN resultsMap[a2v]
  /\ \A colour \in {fillArgb.green, fillArgb.red, fillArgb.orange, "none"} :
       \E ip \in VisitedCells : WebFillOf(ip[1], ip[2]) = colour
  /\ \E ip \in VisitedCells : ~WebExists(ip[1], ip[2]) /\ hasValue(DbOf(ip[1], ip[2]))
  /\ \E ip \in VisitedCells : WebExists(ip[1], ip[2]) /\ ~hasValue(DbOf(ip[1], ip[2]))

====
